---- MODULE Spec2Model ----
(***************************************************************************)
(* QuickREST exploration engine: the explore worker (orchestrators,        *)
(* explore loop with shrinking, invoke), the event bus between the worker  *)
(* and the consumer of manager::explore, and the pure functions they use   *)
(* (synthesis, HTTP translation, meta-property checks).                    *)
(*                                                                         *)
(* Indices kept in values (query position, relation.op_idx, relation.idx)  *)
(* are 0-based as in the source; TLA+ sequences are 1-based, so a use of   *)
(* such an index adds one.                                                 *)
(***************************************************************************)
EXTENDS Integers, Sequences, FiniteSets, TLC

(***************************************************************************)
(* Bounds of the model                                                     *)
(***************************************************************************)
\* largest ctx.number_of_tests explored
NumberOfTests == 2
\* largest number of shrink-loop iterations followed after a witness
MaxShrinkCount == 2
\* largest number of events waiting in the channel when the worker starts a step
MaxBus == 0
\* longest result list given to a meta-property check on its own
MaxResults == 3

(***************************************************************************)
(* Option, panics                                                          *)
(***************************************************************************)
None == [some |-> FALSE]

Some(x) == [some |-> TRUE, v |-> x]

Range(s) == {s[i] : i \in 1..Len(s)}

SetMin(S) == CHOOSE x \in S : \A y \in S : x <= y

(***************************************************************************)
(* AMOS used as input: five operations over one resource.                  *)
(* Parameter = {name, schema, required, meta.target};                      *)
(* Operation = {info.name, parameters, responses, meta{url, method}}.      *)
(* A URL template is kept as its list of pieces: text and placeholders.    *)
(***************************************************************************)
Lit(s) == [t |-> "lit", s |-> s]

Ph(n) == [t |-> "ph", s |-> n]

PersonParam(target) ==
    [name |-> "person", schema |-> "String", required |-> TRUE, target |-> target]

Operations ==
    << [name |-> "getPersons", method |-> "GET", url |-> <<Lit("/persons")>>,
        parameters |-> <<>>,
        responses |-> <<[name |-> "ok", schema |-> "ArrayOfString"]>>],
       [name |-> "getPerson", method |-> "GET",
        url |-> <<Lit("/persons/"), Ph("person")>>,
        parameters |-> <<PersonParam("Path")>>,
        responses |-> <<[name |-> "ok", schema |-> "Unsupported"]>>],
       [name |-> "putPerson", method |-> "PUT",
        url |-> <<Lit("/persons/"), Ph("id")>>,
        parameters |-> <<[name |-> "id", schema |-> "Object", required |-> TRUE,
                          target |-> "Path"]>>,
        responses |-> <<[name |-> "ok", schema |-> "Unsupported"]>>],
       [name |-> "postVisit", method |-> "POST",
        url |-> <<Lit("/persons/"), Ph("person"), Lit("/visits")>>,
        parameters |-> <<PersonParam("Path")>>,
        responses |-> <<[name |-> "ok", schema |-> "Unsupported"]>>],
       [name |-> "findVisits", method |-> "GET",
        url |-> <<Lit("/persons/"), Ph("person"), Lit("/visits")>>,
        parameters |-> <<[PersonParam("Path") EXCEPT !.required = FALSE],
                         [name |-> "q", schema |-> "String", required |-> FALSE,
                          target |-> "Query"]>>,
        responses |-> <<[name |-> "ok", schema |-> "Unsupported"]>>] >>

OperationNames == {Operations[i].name : i \in 1..Len(Operations)}

\* ops.iter().find(|op| op.info.name == name): the first match
find_operation(ops, name) ==
    LET hits == {i \in 1..Len(ops) : ops[i].name = name}
    IN  IF hits = {} THEN None ELSE Some(ops[SetMin(hits)])

\* Target::HTTP { config }
HTTPConfig == [protocol |-> "http://", base_url |-> "localhost", port |-> 8080]

\* StateMutationSettings::new defaults for the pinned generator
min_length == 1

max_length == 2

(***************************************************************************)
(* ParameterValue                                                          *)
(***************************************************************************)
Empty == [kind |-> "Empty"]

StringValue(v, s, a) == [kind |-> "StringValue", value |-> v, seed |-> s, active |-> a]

IntValue(v, s, a) == [kind |-> "IntValue", value |-> v, seed |-> s, active |-> a]

SeededKinds == {"StringValue", "IntValue", "File"}

PrimitiveKinds ==
    {"StringValue", "BoolValue", "DoubleValue", "ArrayOfString", "IntValue",
     "File", "IPV4Value"}

\* ParameterValue::seed: defined for three variants, panics for the others
seed(v) == IF v.kind \in SeededKinds THEN Some(v.seed) ELSE None

\* ParameterValue::active
active(v) == IF v.kind = "Empty" THEN FALSE ELSE v.active

(***************************************************************************)
(* Synthesis: draw -> GeneratedOperation list                              *)
(* A draw item is [op |-> operation name, vals |-> parameter value array]. *)
(* The source array has ten slots; the slots past the operation's          *)
(* parameters always hold Empty and are skipped, so only the first         *)
(* parameters.len() slots are kept here.                                   *)
(***************************************************************************)
PanicOp == [name |-> "<panic>", parameters |-> <<>>]

OpOf(item) == find_operation(Operations, item.op).v

\* the loop of synthesize_operation that follows a Parameter reference chain;
\* fuel counts the links followed
RECURSIVE resolve_chain(_, _, _)
resolve_chain(ops, ref_info, fuel) ==
    IF ref_info.op_idx + 1 > Len(ops) THEN [t |-> "panic"]
    ELSE IF ref_info.idx + 1 > Len(ops[ref_info.op_idx + 1].vals) THEN [t |-> "panic"]
    ELSE LET resolved_param == ops[ref_info.op_idx + 1].vals[ref_info.idx + 1]
         IN  IF resolved_param.kind = "Reference"
             THEN IF resolved_param.relation.kind = "Response"
                  THEN [t |-> "done", info |-> ref_info, value |-> resolved_param]
                  ELSE IF fuel = 0 THEN [t |-> "loop"]
                       ELSE resolve_chain(ops, resolved_param.relation, fuel - 1)
             ELSE IF resolved_param.kind = "Empty" THEN [t |-> "panic"]
             ELSE [t |-> "done", info |-> ref_info, value |-> resolved_param]

ChainFuel(ops) == Len(ops) * 10

\* one iteration of the parameter loop of synthesize_operation
synthesize_parameter(ops, generated_op, i) ==
    LET v == generated_op.vals[i]
        param == OpOf(generated_op).parameters[i]
    IN  IF v.kind \in PrimitiveKinds
        THEN IF ~param.required
             THEN IF ~seed(v).some THEN [t |-> "panic"]
                  ELSE IF seed(v).v > 5 THEN [t |-> "skip"]
                  ELSE [t |-> "push",
                        p |-> [name |-> param.name, value |-> v, ref_path |-> None]]
             ELSE [t |-> "push",
                   p |-> [name |-> param.name, value |-> v, ref_path |-> None]]
        ELSE IF v.kind = "Reference"
        THEN IF v.active
             THEN IF v.relation.kind = "Parameter"
                  THEN LET r == resolve_chain(ops, v.relation, ChainFuel(ops))
                       IN  IF r.t # "done" THEN [t |-> r.t]
                           ELSE [t |-> "push",
                                 p |-> [name |-> param.name, value |-> r.value,
                                        ref_path |-> Some(<<"REFERENCE - Active",
                                            ops[r.info.op_idx + 1].op,
                                            ToString(r.info.op_idx), r.info.name>>)]]
                  ELSE [t |-> "push",
                        p |-> [name |-> param.name, value |-> v,
                               ref_path |-> Some(<<"RSP REFERENCE - Active",
                                   v.relation.operation, ToString(v.relation.op_idx),
                                   ToString(v.relation.idx)>>)]]
             ELSE [t |-> "push",
                   p |-> [name |-> "REFERENCE - Inactive", value |-> v.fallback,
                          ref_path |-> None]]
        ELSE [t |-> "skip"]

RECURSIVE collect_parameters(_, _, _)
collect_parameters(ops, generated_op, i) ==
    IF i > Len(generated_op.vals) THEN [ok |-> TRUE, ps |-> <<>>]
    ELSE LET r == synthesize_parameter(ops, generated_op, i)
             rest == collect_parameters(ops, generated_op, i + 1)
         IN  IF r.t \in {"panic", "loop"} THEN [ok |-> FALSE, ps |-> <<>>]
             ELSE IF ~rest.ok THEN rest
             ELSE IF r.t = "skip" THEN rest
             ELSE [ok |-> TRUE, ps |-> <<r.p>> \o rest.ps]

synthesize_operation(ops, generated_op) ==
    LET c == collect_parameters(ops, generated_op, 1)
    IN  IF c.ok THEN [name |-> generated_op.op, parameters |-> c.ps] ELSE PanicOp

synthesize_operations(ops) ==
    [i \in 1..Len(ops) |-> synthesize_operation(ops, ops[i])]

synthesize_property_operations(query_precedence, ops) == synthesize_operations(ops)

synthesize_operations_for_response_equality_once(query_precedence, ops) ==
    << synthesize_operation(ops, ops[1]) >>

synthesize_operations_for_response_equality(query_precedence, ops) ==
    << synthesize_operation(ops, ops[1]), synthesize_operation(ops, ops[1]) >>

synthesize_operations_for_response_inequality(query_precedence, ops) ==
    synthesize_operations_for_response_equality(query_precedence, ops)

synthesize_operations_for_state_mutation_query_first(query_precedence, ops) ==
    <<synthesize_operation(ops, ops[1])>> \o synthesize_operations(ops)

synthesize_operations_for_state_mutation(query_precedence, ops) ==
    Append(synthesize_operations(ops), synthesize_operation(ops, ops[1]))

RECURSIVE inject_query_ops(_, _, _)
inject_query_ops(ops, query_op, j) ==
    IF j > Len(ops) THEN <<>>
    ELSE << synthesize_operation(ops, ops[j]), synthesize_operation(ops, query_op) >>
         \o inject_query_ops(ops, query_op, j + 1)

synthesize_operations_for_state_identity_no_injection(query_precedence, ops) ==
    synthesize_operations(ops)

synthesize_operations_for_state_identity(query_precedence, ops) ==
    IF ops = <<>> THEN <<>>
    ELSE [i \in 1..(query_precedence + 1) |-> synthesize_operation(ops, ops[i])]
         \o inject_query_ops(ops, ops[query_precedence + 1], query_precedence + 2)

HasPanic(gen_seq) == \E i \in 1..Len(gen_seq) : gen_seq[i] = PanicOp

(***************************************************************************)
(* HTTP translation                                                        *)
(* Text is kept as a list of fragments, so that rendering a value and      *)
(* substituting it into a URL template are computed, not assumed.          *)
(***************************************************************************)
BoolText(b) == IF b THEN "true" ELSE "false"

RECURSIVE join(_, _)
join(strs, sep) ==
    IF strs = <<>> THEN <<>>
    ELSE IF Len(strs) = 1 THEN <<strs[1]>>
    ELSE <<strs[1], sep>> \o join(Tail(strs), sep)

\* value.to_string() / format! of the value of a primitive variant
render(v) ==
    CASE v.kind = "StringValue" -> <<v.value>>
      [] v.kind = "IntValue" -> <<ToString(v.value)>>
      [] v.kind = "File" -> <<ToString(v.value)>>
      [] v.kind = "DoubleValue" -> <<ToString(v.value)>>
      [] v.kind = "BoolValue" -> <<BoolText(v.value)>>
      [] v.kind = "ArrayOfString" -> join(v.value, ",")
      [] v.kind = "IPV4Value" ->
            <<ToString(v.value[1]), ".", ToString(v.value[2]), ".",
              ToString(v.value[3]), ".", ToString(v.value[4])>>
      [] OTHER -> <<>>

\* translated_url.replace("{name}", text)
RECURSIVE replace(_, _, _)
replace(url, name, text) ==
    IF url = <<>> THEN <<>>
    ELSE (IF url[1] = Ph(name) THEN [i \in 1..Len(text) |-> Lit(text[i])] ELSE <<url[1]>>)
         \o replace(Tail(url), name, text)

\* serde_json::from_str on the payloads the modelled target can answer
from_str(text) ==
    CASE text = "[]" -> [t |-> "array", items |-> <<>>]
      [] text = "[\"a\"]" -> [t |-> "array", items |-> <<[t |-> "string", s |-> "a"]>>]
      [] text = "[\"b\"]" -> [t |-> "array", items |-> <<[t |-> "string", s |-> "b"]>>]
      [] text = "[\"Fake result\"]" ->
            [t |-> "array", items |-> <<[t |-> "string", s |-> "Fake result"]>>]
      [] text = "[1]" -> [t |-> "array", items |-> <<[t |-> "number", s |-> "1"]>>]
      [] text = "{}" -> [t |-> "object", items |-> <<>>]
      [] OTHER -> [t |-> "invalid", items |-> <<>>]

\* parse_response: [t |-> "value", v |-> ParameterValue] or a panic
parse_response(param, result, info, fallback) ==
    IF ~result.success THEN [t |-> "value", v |-> fallback]
    ELSE LET content == from_str(result.result)
         IN  IF content.t # "array" THEN [t |-> "panic"]
             ELSE IF content.items = <<>> THEN [t |-> "value", v |-> fallback]
             ELSE IF content.items[1].t # "string" THEN [t |-> "panic"]
             ELSE IF param.schema = "String"
                  THEN [t |-> "value", v |-> StringValue(content.items[1].s, 0, FALSE)]
                  ELSE [t |-> "value", v |-> fallback]

\* parameters_to_form_data: the HashMap name -> text; a later parameter of the
\* same name overwrites an earlier one
parameters_to_form_data(params) ==
    IF \E i \in 1..Len(params) : params[i].value.kind \notin {"StringValue", "IntValue", "File"}
    THEN [t |-> "panic"]
    ELSE [t |-> "map",
          m |-> [n \in {params[i].name : i \in 1..Len(params)} |->
                    LET last == CHOOSE i \in 1..Len(params) :
                                    /\ params[i].name = n
                                    /\ \A j \in 1..Len(params) : params[j].name = n => j <= i
                    IN  render(params[last].value)]]

\* resolve a Response reference against the results so far (results[info.op_idx])
resolve_response(amos_param, p, results) ==
    IF p.value.relation.kind # "Response" THEN [t |-> "panic"]
    ELSE IF p.value.relation.op_idx + 1 > Len(results) THEN [t |-> "panic"]
    ELSE parse_response(amos_param, results[p.value.relation.op_idx + 1],
                        p.value.relation, p.value.fallback)

\* substitution of a resolved Response reference into the URL (Path and Query arms)
substitute_resolved(acc, p, r) ==
    IF r.t = "panic" THEN [t |-> "panic"]
    ELSE IF r.v.kind = "StringValue"
         THEN IF r.v.value = "" THEN [t |-> "none"]
              ELSE [t |-> "ok", acc |-> [acc EXCEPT !.url = replace(@, p.name, render(r.v))]]
    ELSE IF r.v.kind = "IntValue"
         THEN [t |-> "ok", acc |-> [acc EXCEPT !.url = replace(@, p.name, render(r.v))]]
    ELSE [t |-> "panic"]

\* the body of the parameter loop of translate_parameters for one parameter
translate_parameter(acc, p, amos_params, results) ==
    LET found == {j \in 1..Len(amos_params) : amos_params[j].name = p.name}
    IN  IF found = {} THEN [t |-> "panic"]
        ELSE LET amos_param == amos_params[SetMin(found)]
                 target == amos_param.target
                 kind == p.value.kind
             IN
             CASE target = "Body" ->
                    IF kind = "Reference"
                    THEN LET r == resolve_response(amos_param, p, results)
                         IN  IF r.t = "panic" THEN [t |-> "panic"]
                             ELSE [t |-> "ok",
                                   acc |-> [acc EXCEPT !.body =
                                       Append(@, [p EXCEPT !.value = r.v])]]
                    ELSE [t |-> "ok", acc |-> [acc EXCEPT !.body = Append(@, p)]]
               [] target = "Path" ->
                    IF kind = "StringValue"
                    THEN IF p.value.value = "" THEN [t |-> "none"]
                         ELSE [t |-> "ok",
                               acc |-> [acc EXCEPT !.url = replace(@, p.name, render(p.value))]]
                    ELSE IF kind \in {"BoolValue", "DoubleValue", "ArrayOfString",
                                      "IntValue", "IPV4Value"}
                    THEN [t |-> "ok",
                          acc |-> [acc EXCEPT !.url = replace(@, p.name, render(p.value))]]
                    ELSE IF kind = "Empty" THEN [t |-> "none"]
                    ELSE IF kind = "Reference"
                    THEN substitute_resolved(acc, p, resolve_response(amos_param, p, results))
                    ELSE [t |-> "panic"]
               [] target = "FormData" ->
                    IF kind = "Reference"
                    THEN LET r == resolve_response(amos_param, p, results)
                         IN  IF r.t = "panic" THEN [t |-> "panic"]
                             ELSE [t |-> "ok",
                                   acc |-> [acc EXCEPT !.form =
                                       Append(@, [p EXCEPT !.value = r.v])]]
                    ELSE IF kind = "File"
                    THEN [t |-> "ok", acc |-> [acc EXCEPT !.file = Append(@, p)]]
                    ELSE [t |-> "ok", acc |-> [acc EXCEPT !.form = Append(@, p)]]
               [] target = "Query" ->
                    IF kind = "Reference"
                    THEN substitute_resolved(acc, p, resolve_response(amos_param, p, results))
                    ELSE IF kind \in {"StringValue", "IntValue"}
                    THEN [t |-> "ok",
                          acc |-> [acc EXCEPT !.query = Append(@, <<p.name, render(p.value)>>)]]
                    ELSE [t |-> "panic"]
               [] target = "Unsupported" -> [t |-> "ok", acc |-> acc]
               [] OTHER -> [t |-> "panic"]

RECURSIVE translate_loop(_, _, _, _, _)
\* after the body of the loop for parameter i: `?` and panics leave the loop
translate_next(r, params, amos_params, results, i) ==
    IF r.t # "ok" THEN r
    ELSE translate_loop(r.acc, params, amos_params, results, i + 1)

translate_loop(acc, params, amos_params, results, i) ==
    IF i > Len(params) THEN [t |-> "ok", acc |-> acc]
    ELSE translate_next(translate_parameter(acc, params[i], amos_params, results),
                        params, amos_params, results, i)

OptionalMap(ps) ==
    IF ps = <<>> THEN [t |-> "map", m |-> <<>>] ELSE parameters_to_form_data(ps)

\* the end of translate_parameters: the collected parameters become HTTPParameters
HTTPParameters(r) ==
    IF r.t # "ok" THEN [t |-> r.t]
    ELSE IF "panic" \in {OptionalMap(r.acc.form).t, OptionalMap(r.acc.body).t,
                         OptionalMap(r.acc.file).t}
    THEN [t |-> "panic"]
    ELSE [t |-> "some",
          v |-> [url |-> [path |-> r.acc.url, query |-> r.acc.query],
                 form_data |-> OptionalMap(r.acc.form).m,
                 body |-> OptionalMap(r.acc.body).m,
                 file_data |-> OptionalMap(r.acc.file).m]]

\* translate_parameters: [t |-> "some", v |-> HTTPParameters], [t |-> "none"]
\* or [t |-> "panic"]
translate_parameters(params, amos_params, results, url) ==
    HTTPParameters(translate_loop([url |-> url, form |-> <<>>, query |-> <<>>,
                                   body |-> <<>>, file |-> <<>>],
                                  params, amos_params, results, 1))

\* the HTTPCall of translate_operation, with the URL protocol + base_url : port + path
HTTPCall(config, amos_op, call) ==
    IF call.t # "some" THEN [t |-> call.t]
    ELSE [t |-> "some",
          v |-> [url |-> [protocol |-> config.protocol, base_url |-> config.base_url,
                          port |-> config.port, path |-> call.v.url.path,
                          query |-> call.v.url.query],
                 method |-> amos_op.method, parameters |-> call.v]]

translate_operation(config, gen_op, amos_op, results) ==
    HTTPCall(config, amos_op,
             translate_parameters(gen_op.parameters, amos_op.parameters, results,
                                  amos_op.url))

\* build_request: the operation is looked up by name (unwrap), then translated
build_request(ops, gen_op, results) ==
    LET matching_op == find_operation(ops, gen_op.name)
    IN  IF ~matching_op.some THEN [t |-> "panic"]
        ELSE translate_operation(HTTPConfig, gen_op, matching_op.v, results)

(***************************************************************************)
(* Transport                                                               *)
(***************************************************************************)
\* the status match of process_response
http_status(code) ==
    CASE code = 200 -> "OK"
      [] code = 201 -> "Created"
      [] code = 204 -> "NoContent"
      [] code = 400 -> "BadRequest"
      [] code = 401 -> "Unauthorized"
      [] code = 403 -> "Forbidden"
      [] code = 404 -> "NotFound"
      [] code = 405 -> "MethodNotAllowed"
      [] code = 415 -> "UnsupportedMediaType"
      [] code = 500 -> "InternalServerError"
      [] OTHER -> "Unsupported"

\* StatusCode::is_success
is_success(code) == code >= 200 /\ code < 300

InvokeResult(operation, result, success, meta_data) ==
    [operation |-> operation, result |-> result, success |-> success,
     meta_data |-> meta_data]

\* what request.send() can give: an error, a response whose body cannot be
\* read, or a response with a status code and a body
Responses ==
    {[err |-> TRUE, code |-> 0, text |-> None],
     [err |-> FALSE, code |-> 200, text |-> None]}
    \cup {[err |-> FALSE, code |-> 200, text |-> Some("[\"a\"]")],
          [err |-> FALSE, code |-> 200, text |-> Some("[]")],
          [err |-> FALSE, code |-> 500, text |-> Some("[]")]}

\* process_response without its publish: the InvokeResult, if any
process_response(response, gen_op, url) ==
    IF response.err THEN None
    ELSE IF ~response.text.some THEN None
    ELSE Some(InvokeResult(gen_op, response.text.v, is_success(response.code),
                           Some([url |-> url, status |-> http_status(response.code)])))

\* invoke_dry without its publish
invoke_dry(gen_op, url) ==
    Some(InvokeResult(gen_op, "[\"Fake result\"]", TRUE,
                      Some([url |-> url, status |-> "OK"])))

(***************************************************************************)
(* Meta-property checks                                                    *)
(***************************************************************************)
check_response_inequality(invocation_result) ==
    \A i \in 1..Len(invocation_result) : invocation_result[i] = invocation_result[1]

check_response_equality(invocation_result) ==
    ~check_response_inequality(invocation_result)

check_state_mutation(invocation_result) ==
    \A i \in 1..Len(invocation_result) : invocation_result[i] = invocation_result[1]

check_state_identity_without_observation(invocation_result) ==
    IF /\ Len(invocation_result) > 1
       /\ invocation_result[1] = invocation_result[Len(invocation_result)]
    THEN TRUE
    ELSE check_state_mutation(invocation_result)

check_state_identity_any_change(invocation_result) ==
    check_state_mutation(invocation_result)

check_state_identity_with_observation(invocation_result) ==
    IF /\ Len(invocation_result) > 1
       /\ invocation_result[1] = invocation_result[Len(invocation_result)]
    THEN check_state_mutation(invocation_result)
    ELSE TRUE

\* the loop returns at the first result that has meta data
check_response(invocation_result) ==
    LET with_meta == {i \in 1..Len(invocation_result) : invocation_result[i].meta_data.some}
    IN  IF with_meta = {} THEN TRUE
        ELSE invocation_result[SetMin(with_meta)].meta_data.v.status # "InternalServerError"

(***************************************************************************)
(* Generators and the value tree                                           *)
(* The part of the range of the parameter generators that is drawn is kept *)
(* in the variable drawn: [strings, seeds, active].                        *)
(***************************************************************************)
VARIABLE drawn

\* the part of "[a-z]*" that is drawn
GenStrings == drawn.strings

\* the part of 1..10 that is drawn
GenSeeds == drawn.seeds

\* the part of the weighted bool that is drawn
GenActive == drawn.active

\* gen_parameter_value for the schemas used: String, ArrayOfString (a vec of
\* at most one string is drawn), and the schemas that have no generator
gen_parameter_value(param) ==
    IF param.schema = "String"
    THEN {StringValue(s, sd, a) : s \in GenStrings, sd \in GenSeeds, a \in GenActive}
    ELSE IF param.schema = "ArrayOfString"
    THEN {[kind |-> "ArrayOfString", value |-> v, seed |-> sd, active |-> a] :
            v \in {<<>>} \cup {<<s>> : s \in GenStrings}, sd \in GenSeeds,
            a \in GenActive}
    ELSE {Empty}

RECURSIVE gen_param_array(_)
gen_param_array(params) ==
    IF params = <<>> THEN {<<>>}
    ELSE {<<v>> \o rest : v \in gen_parameter_value(params[1]),
                          rest \in gen_param_array(Tail(params))}

gen_operation_with_params(ops) ==
    UNION {{[op |-> ops[i].name, vals |-> vs] : vs \in gen_param_array(ops[i].parameters)} :
            i \in 1..Len(ops)}

gen_static_operation_with_params(op) ==
    {[q |-> 0, seq |-> <<[op |-> op.name, vals |-> vs]>>] :
        vs \in gen_param_array(op.parameters)}

gen_operation_sequence_with_pinned(pinned_op, ops, min, max) ==
    {<<pin>> \o gen_ops :
        pin \in {[op |-> pinned_op.name, vals |-> vs] :
                    vs \in gen_param_array(pinned_op.parameters)},
        gen_ops \in UNION {[1..n -> gen_operation_with_params(ops)] : n \in min..max}}

\* the characters of the names of the AMOS used as input
chars(s) ==
    CASE s = "person" -> <<"p", "e", "r", "s", "o", "n">>
      [] s = "id" -> <<"i", "d">>
      [] s = "getPersons" -> <<"g", "e", "t", "P", "e", "r", "s", "o", "n", "s">>
      [] s = "getPerson" -> <<"g", "e", "t", "P", "e", "r", "s", "o", "n">>
      [] s = "putPerson" -> <<"p", "u", "t", "P", "e", "r", "s", "o", "n">>
      [] s = "postVisit" -> <<"p", "o", "s", "t", "V", "i", "s", "i", "t">>

\* camel_split: a new word starts at every upper-case character (the word
\* before the first one is pushed even when it is empty); P and V are the
\* upper-case characters of the names used
RECURSIVE camel_split(_)
camel_split(cs) ==
    IF cs = <<>> THEN << <<>> >>
    ELSE LET before == camel_split(SubSeq(cs, 1, Len(cs) - 1))
             c == cs[Len(cs)]
         IN  IF c \in {"P", "V"}
             THEN Append(before, <<c>>)
             ELSE [before EXCEPT ![Len(before)] = Append(@, c)]

\* word_contains: the words of b that, in lower case, contain a word of a, once
\* for every such word of a
word_contains(a, b) ==
    LET lower(w) == [i \in 1..Len(w) |->
                        CASE w[i] = "P" -> "p" [] w[i] = "V" -> "v" [] OTHER -> w[i]]
        contains(w, x) ==
            \E at \in 0..(Len(w) - Len(x)) : SubSeq(lower(w), at + 1, at + Len(x)) = lower(x)
        pairs == [n \in 1..(Len(a) * Len(b)) |->
                     <<a[((n - 1) \div Len(b)) + 1], b[((n - 1) % Len(b)) + 1]>>]
        hits == SelectSeq(pairs, LAMBDA pr : contains(pr[2], pr[1]))
    IN  [n \in 1..Len(hits) |-> hits[n][2]]

\* the relations related_parameters finds for param in one operation: its
\* parameters first, then its responses
RECURSIVE relations_of_slots(_, _, _, _, _)
relations_of_slots(o, op_idx, param, kind, n) ==
    LET slots == IF kind = "Parameter" THEN o.parameters ELSE o.responses
    IN  IF n > Len(slots) THEN <<>>
        ELSE LET slot == slots[n]
                 rel(strength) ==
                     [kind |-> kind, operation |-> o.name, name |-> slot.name,
                      schema |-> slot.schema, strength |-> strength, op_idx |-> op_idx,
                      idx |-> n - 1]
                 camel_param == camel_split(chars(param.name))
                 here ==
                     IF kind = "Parameter"
                     THEN IF slot.schema # param.schema THEN <<>>
                          ELSE IF slot.name = param.name THEN <<rel(Len(camel_param))>>
                          ELSE LET matches == word_contains(camel_param,
                                                  camel_split(chars(slot.name)))
                               IN  IF matches # <<>> THEN <<rel(Len(matches))>> ELSE <<>>
                     ELSE LET matches == word_contains(camel_param,
                                             camel_split(chars(o.name)))
                          IN  IF /\ matches # <<>>
                                 /\ slot.schema = "ArrayOfString"
                                 /\ param.schema = "String"
                              THEN <<rel(Len(matches))>> ELSE <<>>
             IN  here \o relations_of_slots(o, op_idx, param, kind, n + 1)

\* related_parameters(operations, param): the candidate relations, operation
\* by operation in sequence order
RECURSIVE related_parameters(_, _)
related_parameters(operations, param) ==
    IF operations = <<>> THEN <<>>
    ELSE LET op_idx == Len(operations) - 1
             o == find_operation(Operations, operations[Len(operations)].op).v
         IN  related_parameters(SubSeq(operations, 1, op_idx), param)
             \o relations_of_slots(o, op_idx, param, "Parameter", 1)
             \o relations_of_slots(o, op_idx, param, "Response", 1)

\* the body of the loops of gen_operation_sequence_added_params for the
\* operation at position i (1-based): every active value that has candidate
\* relations among related_candidates becomes a Reference
add_references(gen_ops, i, related_candidates) ==
    [gen_ops[i] EXCEPT !.vals =
        [j \in 1..Len(gen_ops[i].vals) |->
            LET param == find_operation(Operations, gen_ops[i].op).v.parameters[j]
                param_value == gen_ops[i].vals[j]
                possible_params_relations == related_parameters(related_candidates, param)
            IN  IF active(param_value) /\ possible_params_relations # <<>>
                THEN LET selected_rel ==
                             possible_params_relations[
                                 (seed(param_value).v % Len(possible_params_relations)) + 1]
                     IN  [kind |-> "Reference", active |-> active(param_value),
                          idx |-> <<selected_rel.op_idx, selected_rel.idx>>,
                          relation |-> selected_rel, fallback |-> param_value]
                ELSE param_value]]

gen_operation_sequence_added_params_of_any_position(gen_ops) ==
    IF Len(gen_ops) > 1
    THEN [i \in 1..Len(gen_ops) |-> add_references(gen_ops, i, gen_ops)]
    ELSE gen_ops

gen_operation_sequence_added_params_up_to_itself(gen_ops) ==
    IF Len(gen_ops) > 1
    THEN [i \in 1..Len(gen_ops) |-> add_references(gen_ops, i, SubSeq(gen_ops, 1, i))]
    ELSE gen_ops

\* gen_operation_sequence_added_params: the candidates of the operation at
\* position i are the operations before it
gen_operation_sequence_added_params(gen_ops) ==
    IF Len(gen_ops) > 1
    THEN [i \in 1..Len(gen_ops) |-> add_references(gen_ops, i, SubSeq(gen_ops, 1, i - 1))]
    ELSE gen_ops

gen_pinned_operation_sequence_with_params(pinned_op, ops, min, max) ==
    {[q |-> 0, seq |-> gen_operation_sequence_added_params(sq)] :
        sq \in gen_operation_sequence_with_pinned(pinned_op, ops, min, max)}

\* the filters of explore_state_mutation and explore_state_identity
valid_ops(b) ==
    SelectSeq(Operations,
              LAMBDA op : IF b = "StateMutation" THEN op.method \in {"POST", "PUT"}
                          ELSE op.method \in {"POST", "DELETE"})

StateBehaviours == {"StateMutation", "StateIdentity"}

Behaviours ==
    {"Property", "ResponseEquality", "ResponseInequality"} \cup StateBehaviours

\* the generator each orchestrator hands to explore
generator(b, op_name) ==
    LET op == find_operation(Operations, op_name).v
    IN  IF b \in StateBehaviours
        THEN gen_pinned_operation_sequence_with_params(op, valid_ops(b), min_length,
                                                       max_length)
        ELSE gen_static_operation_with_params(op)

\* the synthesize function each orchestrator hands to explore
synthesize(b, draw) ==
    CASE b = "Property" -> synthesize_property_operations(draw.q, draw.seq)
      [] b = "ResponseEquality" ->
            synthesize_operations_for_response_equality(draw.q, draw.seq)
      [] b = "ResponseInequality" ->
            synthesize_operations_for_response_inequality(draw.q, draw.seq)
      [] b = "StateMutation" -> synthesize_operations_for_state_mutation(draw.q, draw.seq)
      [] b = "StateIdentity" -> synthesize_operations_for_state_identity(draw.q, draw.seq)

\* the check each orchestrator hands to explore
check(b, query_results) ==
    CASE b = "Property" -> check_response(query_results)
      [] b = "ResponseEquality" -> check_response_equality(query_results)
      [] b = "ResponseInequality" -> check_response_inequality(query_results)
      [] b = "StateMutation" -> check_state_mutation(query_results)
      [] b = "StateIdentity" -> check_state_identity_with_observation(query_results)

\* the process_result closure each orchestrator hands to explore
process_result(b, query_operation, invoke_res) ==
    IF b \in StateBehaviours
    THEN IF invoke_res.some
         THEN Some(SelectSeq(invoke_res.v, LAMBDA res : res.operation.name = query_operation.v))
         ELSE None
    ELSE invoke_res

\* Shrinking (proptest value trees) works on the drawn values, and the
\* reference pass maps the shrunk sequence again; the drawn value of a
\* Reference is its fallback.  A shrunk value keeps its variant, its text gets
\* no longer, its seed no larger, and active is never switched on.
value_leq(w, v) ==
    LET drawn_value(x) == IF x.kind = "Reference" THEN x.fallback ELSE x
    IN  /\ drawn_value(w).kind = drawn_value(v).kind
        /\ drawn_value(v).kind = "StringValue" =>
             /\ drawn_value(w).value \in {"", drawn_value(v).value}
             /\ drawn_value(w).seed <= drawn_value(v).seed
             /\ drawn_value(w).active => drawn_value(v).active

\* an operation drawn by index may shrink to an operation of a smaller index,
\* with a fresh parameter array
item_leq(w, v, ops) ==
    \/ /\ w.op = v.op
       /\ \A i \in 1..Len(v.vals) : value_leq(w.vals[i], v.vals[i])
    \/ \E i, j \in 1..Len(ops) : i < j /\ ops[i].name = w.op /\ ops[j].name = v.op

\* the elements left of a shrunk vec are shrunk elements of the vec, in order
RECURSIVE vec_leq(_, _, _)
vec_leq(w, v, ops) ==
    IF w = <<>> THEN TRUE
    ELSE IF v = <<>> THEN FALSE
    ELSE \/ item_leq(w[1], v[1], ops) /\ vec_leq(Tail(w), Tail(v), ops)
         \/ vec_leq(w, Tail(v), ops)

draw_leq(w, v, ops) ==
    /\ w.q = v.q
    /\ item_leq(w.seq[1], v.seq[1], <<>>)
    /\ vec_leq(Tail(w.seq), Tail(v.seq), ops)

\* the values a simplify can move to from draw v
simpler(b, op_name, v) ==
    {w \in generator(b, op_name) : w # v /\ draw_leq(w, v, valid_ops(b))}

\* the values a complicate can move back to: between the current value and
\* the value the tree started from
more_complex(b, op_name, v, first) ==
    {w \in generator(b, op_name) :
        /\ w # v
        /\ draw_leq(v, w, valid_ops(b))
        /\ draw_leq(w, first, valid_ops(b))}

(***************************************************************************)
(* State                                                                   *)
(***************************************************************************)
VARIABLES
    behaviour,        \* the behaviour spawn_exploration was asked for
    explore_ops,      \* names of the operations to explore, in input order
    number_of_tests,  \* ctx.number_of_tests
    is_dry_run,       \* Options.is_dry_run: invoke_dry or invoke_with_reqwest
    query_operation,  \* ctx.query_operation
    pc,               \* where the worker thread is
    op_i,             \* position of the orchestrator in explore_ops (1-based)
    test_n,           \* loop variable of explore
    phase,            \* "test" before a witness is found, "shrink" after
    shrink_count,     \* shrink_count of explore
    val,              \* current value of the value tree
    first_val,        \* the value that failed the check first
    gen_ops,          \* the synthesized sequence handed to invoke
    results,          \* results of invoke
    k,                \* position of invoke in gen_ops (1-based)
    invoke_result,    \* what invoke returned
    result_seq,       \* what explore returned
    trace,            \* what the running invoke call did so far, in order
    invokes,          \* invoke calls made by the running explore call
    moves,            \* simplify/complicate calls made by the running explore call
    bus,              \* events sent and not yet received
    rx_alive,         \* the receiving end of the channel exists
    consumer,         \* where the consumer is
    app_results,      \* AppState.results of the consumer
    pub_log,          \* Control and Result events published so far
    send_failed,      \* a tx.send has failed
    fn_in,            \* argument of a function checked on its own
    fn_out            \* its result

cfg == <<behaviour, explore_ops, number_of_tests, is_dry_run, drawn>>

fnv == <<fn_in, fn_out>>

tree == <<val, first_val>>

call == <<gen_ops, results, k, invoke_result, trace>>

cons == <<rx_alive, consumer, app_results>>

vars ==
    <<behaviour, explore_ops, number_of_tests, is_dry_run, drawn, query_operation, pc, op_i,
      test_n, phase, shrink_count, val, first_val, gen_ops, results, k, invoke_result,
      result_seq, trace, invokes, moves, bus, rx_alive, consumer, app_results, pub_log,
      send_failed, fn_in, fn_out>>

(***************************************************************************)
(* Events                                                                  *)
(***************************************************************************)
LogEvent == [type |-> "Log"]

TimeLineStart == [type |-> "TimeLineStart"]

TimeLineProgress == [type |-> "TimeLineProgress"]

TimeLineEnd == [type |-> "TimeLineEnd"]

Control(e) == [type |-> "Control", event |-> e]

InvocationSpanEnter == [type |-> "InvocationSpanEnter"]

InvocationSpanExit == [type |-> "InvocationSpanExit"]

Invocation(r) == [type |-> "Invocation", result |-> r]

ResultEvent(r) == [type |-> "Result", result |-> r]

IsControlOrResult(e) == e.type \in {"Control", "Result"}

\* publish_event for each event of evs in turn, the receiver being there
publish_event(evs) ==
    /\ bus' = bus \o evs
    /\ pub_log' = pub_log \o SelectSeq(evs, IsControlOrResult)

CanPublishIgnoringReceiver(evs) == evs = <<>> \/ Len(bus) <= MaxBus

\* the worker can take a step that publishes evs
CanPublish(evs) == evs = <<>> \/ (rx_alive /\ Len(bus) <= MaxBus)

NoDraw == [q |-> 0, seq |-> <<>>]

exploration_result_ignoring_none(b, op_name, res) ==
    [kind |-> "ResponseCheck", operation |-> op_name, minimal_sequence |-> res]

\* the ExplorationResult an orchestrator builds from what explore returned
exploration_result(b, op_name, res) ==
    IF ~res.some THEN [kind |-> "NoExampleFound", operation |-> op_name]
    ELSE CASE b = "Property" ->
                [kind |-> "ResponseCheck", operation |-> op_name, minimal_sequence |-> res]
           [] b = "ResponseEquality" ->
                [kind |-> "ResponseEquality", operation |-> op_name,
                 minimal_sequence |-> res]
           [] b = "ResponseInequality" ->
                [kind |-> "ResponseInEquality", operation |-> op_name,
                 minimal_sequence |-> res]
           [] b = "StateMutation" ->
                [kind |-> "StateMutation", query_operation |-> op_name,
                 minimal_sequence |-> res]
           [] b = "StateIdentity" ->
                [kind |-> "StateIdentity", query_operation |-> op_name,
                 minimal_sequence |-> res]

\* ValueTree::simplify and ValueTree::complicate: whether the tree moved, and
\* the current value afterwards
simplify(b, op_name, v) ==
    {[moved |-> FALSE, val |-> v]}
    \cup {[moved |-> TRUE, val |-> w] : w \in simpler(b, op_name, v)}

complicate_by_simplify(b, op_name, v, first) == simplify(b, op_name, v)

complicate(b, op_name, v, first) ==
    {[moved |-> FALSE, val |-> v]}
    \cup {[moved |-> TRUE, val |-> w] : w \in more_complex(b, op_name, v, first)}

\* the operations the caller selects for a behaviour: queries for the state
\* behaviours, any operation for the response behaviours
ExploreLists(b) ==
    IF b \in StateBehaviours THEN {<<"getPersons">>}
    ELSE {<<"getPersons", "getPerson">>}

(***************************************************************************)
(* Initial state                                                           *)
(***************************************************************************)
InitWorker ==
    /\ query_operation = None
    /\ op_i = 1
    /\ test_n = 0
    /\ phase = "test"
    /\ shrink_count = 0
    /\ val = NoDraw
    /\ first_val = NoDraw
    /\ gen_ops = <<>>
    /\ results = <<>>
    /\ k = 1
    /\ invoke_result = None
    /\ result_seq = None
    /\ trace = <<>>
    /\ invokes = 0
    /\ moves = 0
    /\ bus = <<>>
    /\ rx_alive = TRUE
    /\ consumer = "recv"
    /\ app_results = <<>>
    /\ pub_log = <<>>
    /\ send_failed = FALSE

\* the values drawn while the worker runs are inactive: none becomes a Reference
InactiveDraws == [strings |-> {"", "a"}, seeds |-> {1}, active |-> {FALSE}]

Init ==
    /\ behaviour \in Behaviours
    /\ explore_ops \in ExploreLists(behaviour)
    /\ number_of_tests \in 0..NumberOfTests
    /\ is_dry_run \in BOOLEAN
    /\ drawn = InactiveDraws
    /\ InitWorker
    /\ pc = "start"
    /\ fn_in = <<>>
    /\ fn_out = None

(***************************************************************************)
(* The worker: orchestrators                                               *)
(***************************************************************************)
\* response_check .. explore_state_identity up to Control Started
Start ==
    /\ pc = "start"
    /\ CanPublish(<<LogEvent>>)
    /\ publish_event(<<LogEvent, TimeLineStart, Control("Started")>>)
    /\ pc' = "op"
    /\ UNCHANGED <<cfg, fnv, tree, call, cons, query_operation, op_i, test_n, phase,
                   shrink_count, result_seq, invokes, moves, send_failed>>

\* the closure of the map over the operations, up to the call of explore
OpBegin ==
    /\ pc = "op"
    /\ op_i <= Len(explore_ops)
    /\ CanPublish(<<TimeLineProgress>>)
    /\ publish_event(<<TimeLineProgress, LogEvent>>)
    /\ query_operation' = IF behaviour \in StateBehaviours
                          THEN Some(explore_ops[op_i]) ELSE query_operation
    /\ test_n' = 0
    /\ phase' = "test"
    /\ shrink_count' = 0
    /\ invokes' = 0
    /\ moves' = 0
    /\ val' = NoDraw
    /\ first_val' = NoDraw
    /\ pc' = "test"
    /\ UNCHANGED <<cfg, fnv, call, cons, op_i, result_seq, send_failed>>

\* the rest of the closure: the result is built and published
OpResult ==
    /\ pc = "op_result"
    /\ LET result == exploration_result(behaviour, explore_ops[op_i], result_seq)
       IN  /\ CanPublish(<<ResultEvent(result)>>)
           /\ publish_event(<<ResultEvent(result)>>)
    /\ op_i' = op_i + 1
    /\ pc' = "op"
    /\ UNCHANGED <<cfg, fnv, tree, call, cons, query_operation, test_n, phase,
                   shrink_count, result_seq, invokes, moves, send_failed>>

FinishBeforeTimeLineEnd ==
    /\ pc = "op"
    /\ op_i > Len(explore_ops)
    /\ CanPublish(<<TimeLineEnd>>)
    /\ publish_event(<<Control("Finished"), TimeLineEnd>>)
    /\ pc' = "done"
    /\ UNCHANGED <<cfg, fnv, tree, call, cons, query_operation, op_i, test_n, phase,
                   shrink_count, result_seq, invokes, moves, send_failed>>

\* after the last operation: TimeLineEnd, Control Finished, return
Finish ==
    /\ pc = "op"
    /\ op_i > Len(explore_ops)
    /\ CanPublish(<<TimeLineEnd>>)
    /\ publish_event(<<TimeLineEnd, Control("Finished")>>)
    /\ pc' = "done"
    /\ UNCHANGED <<cfg, fnv, tree, call, cons, query_operation, op_i, test_n, phase,
                   shrink_count, result_seq, invokes, moves, send_failed>>

(***************************************************************************)
(* The worker: explore                                                     *)
(***************************************************************************)
\* invoke up to its loop: InvocationSpanEnter is published, results is empty
enter_invoke(ops) ==
    /\ gen_ops' = ops
    /\ results' = <<>>
    /\ k' = 1
    /\ invoke_result' = None
    /\ trace' = <<[e |-> "enter", i |-> 0]>>
    /\ invokes' = invokes + 1
    /\ pc' = "invoke"

\* one iteration of the test loop up to the call of invoke: a new tree is
\* drawn and its current value synthesized
TestBegin ==
    /\ pc = "test"
    /\ test_n < number_of_tests
    /\ CanPublish(<<TimeLineProgress>>)
    /\ \E draw \in generator(behaviour, explore_ops[op_i]) :
          /\ val' = draw
          /\ IF HasPanic(synthesize(behaviour, draw))
             THEN /\ publish_event(<<TimeLineProgress, TimeLineProgress>>)
                  /\ pc' = "panicked"
                  /\ UNCHANGED <<call, invokes>>
             ELSE /\ publish_event(<<TimeLineProgress, TimeLineProgress, TimeLineProgress,
                                     TimeLineProgress, InvocationSpanEnter>>)
                  /\ enter_invoke(synthesize(behaviour, draw))
    /\ UNCHANGED <<cfg, fnv, cons, query_operation, op_i, test_n, phase, shrink_count,
                   first_val, result_seq, moves, send_failed>>

\* the test loop is over: explore returns None
ExploreNone ==
    /\ pc = "test"
    /\ test_n >= number_of_tests
    /\ result_seq' = None
    /\ pc' = "op_result"
    /\ UNCHANGED <<cfg, fnv, tree, call, cons, query_operation, op_i, test_n, phase,
                   shrink_count, invokes, moves, bus, pub_log, send_failed>>

\* the answers the transport function can give to a call
transport(gen_op, url) ==
    IF is_dry_run THEN {invoke_dry(gen_op, url)}
    ELSE {process_response(r, gen_op, url) : r \in Responses}

push_front(vec, r) == <<r>> \o vec

\* results.push(r)
push(vec, r) == Append(vec, r)

invoke_skips_operation ==
    /\ trace' = Append(trace, [e |-> "none", i |-> k])
    /\ k' = k + 1
    /\ UNCHANGED <<gen_ops, results, invoke_result, pc, bus, pub_log>>

\* the `?` on build_request: invoke returns None where it stands
invoke_returns_none ==
    /\ invoke_result' = None
    /\ trace' = Append(trace, [e |-> "none", i |-> k])
    /\ pc' = "after_invoke"
    /\ UNCHANGED <<gen_ops, results, k, bus, pub_log>>

\* one iteration of the loop of invoke: build_request, the transport function
\* (which sends the request and publishes Invocation when it has a result),
\* and the push of the result
InvokeStep ==
    /\ pc = "invoke"
    /\ k <= Len(gen_ops)
    /\ \E req \in {build_request(Operations, gen_ops[k], results)} :
           IF req.t = "panic"
           THEN /\ pc' = "panicked"
                /\ UNCHANGED <<gen_ops, results, k, invoke_result, trace, bus, pub_log>>
           ELSE IF req.t = "none"
           THEN invoke_returns_none
           ELSE \E resp \in transport(gen_ops[k], req.v.url) :
                  /\ CanPublish(IF resp.some THEN <<Invocation(resp.v)>> ELSE <<>>)
                  /\ IF resp.some
                     THEN /\ publish_event(<<Invocation(resp.v)>>)
                          /\ results' = push(results, resp.v)
                          /\ trace' = trace \o <<[e |-> "request", i |-> k],
                                                 [e |-> "invocation", i |-> k]>>
                     ELSE /\ UNCHANGED <<bus, pub_log, results>>
                          /\ trace' = Append(trace, [e |-> "request", i |-> k])
                  /\ k' = k + 1
                  /\ UNCHANGED <<gen_ops, invoke_result, pc>>
    /\ UNCHANGED <<cfg, fnv, tree, cons, query_operation, op_i, test_n, phase,
                   shrink_count, result_seq, invokes, moves, send_failed>>

\* the loop of invoke is over: InvocationSpanExit, return Some(results)
InvokeExit ==
    /\ pc = "invoke"
    /\ k > Len(gen_ops)
    /\ CanPublish(<<InvocationSpanExit>>)
    /\ publish_event(<<InvocationSpanExit>>)
    /\ invoke_result' = Some(results)
    /\ trace' = Append(trace, [e |-> "exit", i |-> 0])
    /\ pc' = "after_invoke"
    /\ UNCHANGED <<cfg, fnv, tree, cons, query_operation, op_i, test_n, phase,
                   shrink_count, gen_ops, results, k, result_seq, invokes, moves,
                   send_failed>>

\* the filtered results of the invoke call that returned
query_results == process_result(behaviour, query_operation, invoke_result)

CheckFailsInverted == query_results.some /\ check(behaviour, query_results.v)

\* the check fails on the filtered results
CheckFails == query_results.some /\ ~check(behaviour, query_results.v)

\* the test loop after invoke: filter, check, and on a failed check the first
\* simplify
AfterInvokeTest ==
    /\ pc = "after_invoke"
    /\ phase = "test"
    /\ CanPublish(<<TimeLineProgress>>)
    /\ IF ~CheckFails
       THEN /\ publish_event(<<TimeLineProgress>>)
            /\ test_n' = test_n + 1
            /\ pc' = "test"
            /\ UNCHANGED <<tree, phase, moves>>
       ELSE /\ publish_event(<<TimeLineProgress, TimeLineProgress>>)
            /\ \E s \in simplify(behaviour, explore_ops[op_i], val) : val' = s.val
            /\ first_val' = val
            /\ phase' = "shrink"
            /\ moves' = moves + 1
            /\ pc' = "shrink"
            /\ UNCHANGED test_n
    /\ shrink_count' = 0
    /\ UNCHANGED <<cfg, fnv, call, cons, query_operation, op_i, result_seq, invokes,
                   send_failed>>

\* the head of the shrink loop up to the call of invoke
ShrinkBegin ==
    /\ pc = "shrink"
    /\ shrink_count < MaxShrinkCount
    /\ CanPublish(<<InvocationSpanEnter>>)
    /\ shrink_count' = shrink_count + 1
    /\ IF HasPanic(synthesize(behaviour, val))
       THEN /\ pc' = "panicked"
            /\ UNCHANGED <<call, invokes, bus, pub_log>>
       ELSE /\ publish_event(<<InvocationSpanEnter>>)
            /\ enter_invoke(synthesize(behaviour, val))
    /\ UNCHANGED <<cfg, fnv, tree, cons, query_operation, op_i, test_n, phase,
                   result_seq, moves, send_failed>>

\* the shrink loop after invoke: filter, check, one tree move, and when the
\* loop breaks the synthesis of the current value, which explore returns
AfterInvokeShrink ==
    /\ pc = "after_invoke"
    /\ phase = "shrink"
    /\ \E s \in (IF CheckFails THEN simplify(behaviour, explore_ops[op_i], val)
                 ELSE complicate(behaviour, explore_ops[op_i], val, first_val)) :
          LET again == s.moved \/ ~query_results.some
              evs == (IF CheckFails THEN <<TimeLineProgress>> ELSE <<>>)
                     \o (IF again THEN <<>> ELSE <<TimeLineProgress>>)
          IN  /\ CanPublish(evs)
              /\ publish_event(evs)
              /\ val' = s.val
              /\ IF again
                 THEN /\ pc' = "shrink"
                      /\ UNCHANGED result_seq
                 ELSE /\ pc' = "op_result"
                      /\ result_seq' = Some(synthesize(behaviour, s.val))
    /\ moves' = moves + 1
    /\ UNCHANGED <<cfg, fnv, call, cons, query_operation, op_i, test_n, phase,
                   shrink_count, first_val, invokes, send_failed>>

(***************************************************************************)
(* The consumer: process_exploration_events                                *)
(***************************************************************************)
\* one iteration of the receive loop: Result is stored, Control Finished ends
\* the loop and with it the life of the receiver
Receive ==
    /\ consumer = "recv"
    /\ rx_alive
    /\ bus # <<>>
    /\ LET event == Head(bus)
       IN  /\ app_results' = IF event.type = "Result"
                             THEN Append(app_results, event.result) ELSE app_results
           /\ IF event = Control("Finished")
              THEN /\ consumer' = "finished"
                   /\ rx_alive' = FALSE
                   /\ bus' = <<>>
              ELSE /\ bus' = Tail(bus)
                   /\ UNCHANGED <<consumer, rx_alive>>
    /\ UNCHANGED <<cfg, fnv, tree, call, query_operation, pc, op_i, test_n, phase,
                   shrink_count, result_seq, invokes, moves, pub_log, send_failed>>

Next ==
    \/ Start
    \/ OpBegin
    \/ OpResult
    \/ Finish
    \/ TestBegin
    \/ ExploreNone
    \/ InvokeStep
    \/ InvokeExit
    \/ AfterInvokeTest
    \/ ShrinkBegin
    \/ AfterInvokeShrink
    \/ Receive

Spec == Init /\ [][Next]_vars

(***************************************************************************)
(* The consumer goes away while the worker runs                            *)
(***************************************************************************)
\* the caller of ObjectiveManager::explore drops the receiver it was handed;
\* the events still in the channel are lost with it
DropReceiver ==
    /\ consumer = "recv"
    /\ rx_alive
    /\ rx_alive' = FALSE
    /\ bus' = <<>>
    /\ consumer' = "dropped"
    /\ UNCHANGED <<cfg, fnv, tree, call, query_operation, pc, op_i, test_n, phase,
                   shrink_count, result_seq, invokes, moves, app_results, pub_log,
                   send_failed>>

\* the worker is at a step that starts with a publish
PublishesFirst ==
    \/ pc \in {"start", "op", "op_result"}
    \/ pc = "test" /\ test_n < number_of_tests
    \/ pc = "invoke" /\ k > Len(gen_ops)
    \/ pc = "after_invoke" /\ (phase = "test" \/ CheckFails)
    \/ pc = "shrink" /\ shrink_count < MaxShrinkCount
                     /\ ~HasPanic(synthesize(behaviour, val))

\* publish_event with the receiver gone: tx.send fails and unwrap panics, which
\* ends the worker thread where it stands
PublishFails ==
    /\ ~rx_alive
    /\ PublishesFirst
    /\ send_failed' = TRUE
    /\ pc' = "panicked"
    /\ UNCHANGED <<cfg, fnv, tree, call, cons, query_operation, op_i, test_n, phase,
                   shrink_count, result_seq, invokes, moves, bus, pub_log>>

\* the same inside the transport function: the request of step k has been sent
\* and answered when the publish of its Invocation fails
InvokeStepPublishFails ==
    /\ ~rx_alive
    /\ pc = "invoke"
    /\ k <= Len(gen_ops)
    /\ \E req \in {build_request(Operations, gen_ops[k], results)} :
          /\ req.t = "some"
          /\ \E resp \in transport(gen_ops[k], req.v.url) : resp.some
    /\ trace' = Append(trace, [e |-> "request", i |-> k])
    /\ send_failed' = TRUE
    /\ pc' = "panicked"
    /\ UNCHANGED <<cfg, fnv, tree, cons, query_operation, op_i, test_n, phase,
                   shrink_count, gen_ops, results, k, invoke_result, result_seq,
                   invokes, moves, bus, pub_log>>

\* the same at the end of the shrink loop: the check held, complicate returned
\* false, and the publish after the loop fails
ShrinkDonePublishFails ==
    /\ ~rx_alive
    /\ pc = "after_invoke"
    /\ phase = "shrink"
    /\ query_results.some
    /\ ~CheckFails
    /\ moves' = moves + 1
    /\ send_failed' = TRUE
    /\ pc' = "panicked"
    /\ UNCHANGED <<cfg, fnv, tree, call, cons, query_operation, op_i, test_n, phase,
                   shrink_count, result_seq, invokes, bus, pub_log>>

NextDrop ==
    \/ Next
    \/ DropReceiver
    \/ PublishFails
    \/ InvokeStepPublishFails
    \/ ShrinkDonePublishFails

SpecDrop == Init /\ [][NextDrop]_vars

(***************************************************************************)
(* The meta-property checks on their own: a result list is drawn and a     *)
(* check applied to it                                                     *)
(***************************************************************************)
\* InvokeResults of a query: each status and payload of the transport, and a
\* result that carries no meta data
CheckResults ==
    LET gen_op == [name |-> "getPersons", parameters |-> <<>>]
    IN  {InvokeResult(gen_op, text, is_success(code),
                      Some([url |-> "url", status |-> http_status(code)])) :
            code \in {200, 500}, text \in {"[\"a\"]", "[]"}}
        \cup {InvokeResult(gen_op, "[]", TRUE, None)}

InitCheck ==
    /\ behaviour = "Property"
    /\ explore_ops = <<>>
    /\ number_of_tests = 0
    /\ is_dry_run = FALSE
    /\ drawn = InactiveDraws
    /\ InitWorker
    /\ pc = "check"
    /\ fn_in \in UNION {[1..n -> CheckResults] : n \in 0..MaxResults}
    /\ fn_out = None

Returns(f, v) ==
    /\ pc = "check"
    /\ fn_out' = Some([f |-> f, v |-> v])
    /\ pc' = "checked"
    /\ UNCHANGED <<cfg, tree, call, cons, query_operation, op_i, test_n, phase,
                   shrink_count, result_seq, invokes, moves, bus, pub_log, send_failed,
                   fn_in>>

CheckResponse == Returns("check_response", check_response(fn_in))

CheckResponseEquality == Returns("check_response_equality", check_response_equality(fn_in))

CheckResponseInequality ==
    Returns("check_response_inequality", check_response_inequality(fn_in))

CheckStateMutation == Returns("check_state_mutation", check_state_mutation(fn_in))

CheckStateIdentity ==
    Returns("check_state_identity_with_observation",
            check_state_identity_with_observation(fn_in))

NextCheck ==
    \/ CheckResponse
    \/ CheckResponseEquality
    \/ CheckResponseInequality
    \/ CheckStateMutation
    \/ CheckStateIdentity

SpecCheck == InitCheck /\ [][NextCheck]_vars

(***************************************************************************)
(* The value tree and synthesis on their own: a tree is drawn with active  *)
(* values in the range, moved by simplify and complicate, and its current  *)
(* value synthesized                                                       *)
(***************************************************************************)
ActiveDraws == [strings |-> {"a"}, seeds |-> {1, 2}, active |-> BOOLEAN]

\* a parameter array as a caller of synthesize_operation can hand it over: the
\* slot of postVisit holds a Reference that is not active
GivenOperations ==
    {<< [op |-> "getPersons", vals |-> <<>>],
        [op |-> "postVisit",
         vals |-> <<[kind |-> "Reference", active |-> FALSE, idx |-> <<0, 0>>,
                     relation |-> [kind |-> "Response", operation |-> "getPersons",
                                   name |-> "ok", schema |-> "ArrayOfString",
                                   strength |-> 1, op_idx |-> 0, idx |-> 0],
                     fallback |-> f]>>] >> :
        f \in {StringValue(st, sd, FALSE) : st \in {"", "a"}, sd \in {1, 2}}}

InitSynth ==
    /\ behaviour \in Behaviours
    /\ explore_ops \in {<<"getPersons">>, <<"getPerson">>}
    /\ number_of_tests = 1
    /\ is_dry_run = TRUE
    /\ drawn = ActiveDraws
    /\ InitWorker
    /\ pc = "tree"
    /\ fn_in = <<>>
    /\ fn_out = None

\* generator.new_tree(&mut runner)
NewTree ==
    /\ pc = "tree"
    /\ val = NoDraw
    /\ val' \in generator(behaviour, explore_ops[1])
    /\ first_val' = val'
    /\ UNCHANGED <<cfg, fnv, call, cons, query_operation, pc, op_i, test_n, phase,
                   shrink_count, result_seq, invokes, moves, bus, pub_log, send_failed>>

\* val.simplify() that moves the tree
TreeSimplify ==
    /\ pc = "tree"
    /\ val # NoDraw
    /\ \E s \in simplify(behaviour, explore_ops[1], val) : s.moved /\ val' = s.val
    /\ fn_in' = <<>>
    /\ fn_out' = None
    /\ UNCHANGED <<cfg, call, cons, query_operation, pc, op_i, test_n, phase,
                   shrink_count, first_val, result_seq, invokes, moves, bus, pub_log,
                   send_failed>>

\* val.complicate() that moves the tree
TreeComplicate ==
    /\ pc = "tree"
    /\ val # NoDraw
    /\ \E s \in complicate(behaviour, explore_ops[1], val, first_val) :
          s.moved /\ val' = s.val
    /\ fn_in' = <<>>
    /\ fn_out' = None
    /\ UNCHANGED <<cfg, call, cons, query_operation, pc, op_i, test_n, phase,
                   shrink_count, first_val, result_seq, invokes, moves, bus, pub_log,
                   send_failed>>

\* synthesize_operations(*query_pos, op_seq) on the current value of the tree
Synthesize ==
    /\ pc = "tree"
    /\ val # NoDraw
    /\ fn_out = None
    /\ fn_in' = val.seq
    /\ fn_out' = Some(synthesize(behaviour, val))
    /\ UNCHANGED <<cfg, tree, call, cons, query_operation, pc, op_i, test_n, phase,
                   shrink_count, result_seq, invokes, moves, bus, pub_log, send_failed>>

\* synthesize_operation(ops, generated_op) on the last operation of a given
\* sequence
SynthesizeGiven ==
    /\ pc = "tree"
    /\ val = NoDraw
    /\ \E ops \in GivenOperations :
          /\ fn_in' = ops
          /\ fn_out' = Some(<<synthesize_operation(ops, ops[Len(ops)])>>)
    /\ pc' = "given"
    /\ UNCHANGED <<cfg, tree, call, cons, query_operation, op_i, test_n, phase,
                   shrink_count, result_seq, invokes, moves, bus, pub_log, send_failed>>

NextSynth ==
    \/ NewTree
    \/ TreeSimplify
    \/ TreeComplicate
    \/ Synthesize
    \/ SynthesizeGiven

SpecSynth == InitSynth /\ [][NextSynth]_vars

(***************************************************************************)
(* translate_parameters on its own: the Path parameter of an operation     *)
(* holds a generated value or a reference to the response of the call      *)
(* before, which was answered one way or another                           *)
(***************************************************************************)
TranslateDraws == [strings |-> {"", "a"}, seeds |-> {1}, active |-> BOOLEAN]

\* the values the slot of param can hold when its operation comes second in a
\* sequence that starts with getPersons: a generated value, or for an active
\* value related to the response of getPersons the Reference to it
TranslateValues(param) ==
    gen_parameter_value(param)
    \cup {add_references(<<[op |-> "getPersons", vals |-> <<>>],
                           [op |-> "postVisit", vals |-> <<v>>]>>, 2,
                         <<[op |-> "getPersons", vals |-> <<>>]>>).vals[1] :
            v \in {x \in gen_parameter_value(param) : param.schema = "String"}}

InitTranslate ==
    /\ behaviour = "Property"
    /\ explore_ops = <<>>
    /\ number_of_tests = 0
    /\ is_dry_run = FALSE
    /\ drawn = TranslateDraws
    /\ InitWorker
    /\ pc = "translate"
    /\ \E schema \in {"String", "ArrayOfString", "Object"} :
          \E v \in TranslateValues([PersonParam("Path") EXCEPT !.schema = schema]) :
             \E r \in CheckResults :
                fn_in = [params |-> <<[name |-> "person", value |-> v, ref_path |-> None]>>,
                         amos_params |-> <<[PersonParam("Path") EXCEPT !.schema = schema]>>,
                         results |-> <<r>>,
                         url |-> <<Lit("/persons/"), Ph("person"), Lit("/visits")>>]
    /\ fn_out = None

\* translate_parameters(params, amos_params, results, url)
TranslateParameters ==
    /\ pc = "translate"
    /\ fn_out' = Some(translate_parameters(fn_in.params, fn_in.amos_params,
                                           fn_in.results, fn_in.url))
    /\ pc' = "translated"
    /\ UNCHANGED <<cfg, tree, call, cons, query_operation, op_i, test_n, phase,
                   shrink_count, result_seq, invokes, moves, bus, pub_log, send_failed,
                   fn_in>>

NextTranslate == TranslateParameters

SpecTranslate == InitTranslate /\ [][NextTranslate]_vars

(***************************************************************************)
(* Bucket classifier (amos_buckets.rs).  A URL is here the list of its     *)
(* tokens: the separator '/', literal text without '/', and placeholders   *)
(***************************************************************************)
Sep == [t |-> "sep", s |-> "/"]

\* url.split('/')
RECURSIVE split(_)
split(url) ==
    IF \A i \in 1..Len(url) : url[i] # Sep THEN <<url>>
    ELSE <<SubSeq(url, 1, SetMin({i \in 1..Len(url) : url[i] = Sep}) - 1)>>
         \o split(SubSeq(url, SetMin({i \in 1..Len(url) : url[i] = Sep}) + 1, Len(url)))

\* s.starts_with('{')
starts_with_brace(text) == text # <<>> /\ text[1].t = "ph"

\* url.ends_with('}')
ends_with_brace(text) == text # <<>> /\ text[Len(text)].t = "ph"

\* the number of segments of the URL that start with '{'
init_bucket(url) == Len(SelectSeq(split(url), starts_with_brace))

\* the match on the method: bucket and kind, or the panic of the last arm
bucket_of(url, method) ==
    CASE method = "GET" ->
            [t |-> "ok", kind |-> "Read",
             precedence |-> IF init_bucket(url) > 0 /\ ~ends_with_brace(url)
                            THEN init_bucket(url) + 1 ELSE init_bucket(url)]
      [] method = "DELETE" ->
            [t |-> "ok", kind |-> "Delete", precedence |-> init_bucket(url) + 2]
      [] method = "POST" ->
            IF init_bucket(url) > 0 /\ ~ends_with_brace(url)
            THEN [t |-> "ok", kind |-> "Update", precedence |-> init_bucket(url) + 1]
            ELSE [t |-> "ok", kind |-> "Create", precedence |-> init_bucket(url)]
      [] method = "PUT" ->
            [t |-> "ok", kind |-> "Update",
             precedence |-> IF init_bucket(url) > 0 /\ ~ends_with_brace(url)
                            THEN init_bucket(url) + 1 ELSE init_bucket(url)]
      [] OTHER -> [t |-> "panic"]

\* the items of the operations from position i on
RECURSIVE bucket_items(_, _)
bucket_items(ops, i) ==
    IF i > Len(ops) THEN <<>>
    ELSE IF ~ops[i].meta_data.some THEN bucket_items(ops, i + 1)
    ELSE <<[precedence |-> bucket_of(ops[i].meta_data.v.url,
                                     ops[i].meta_data.v.method).precedence % 256,
            kind |-> bucket_of(ops[i].meta_data.v.url, ops[i].meta_data.v.method).kind,
            name |-> ops[i].name,
            url |-> ops[i].meta_data.v.url,
            method |-> ops[i].meta_data.v.method]>>
         \o bucket_items(ops, i + 1)

\* Buckets::new: the items in the order of the operations and the index of
\* the item positions (from 0) by precedence
Buckets_new(ops) ==
    IF \E i \in 1..Len(ops) :
          /\ ops[i].meta_data.some
          /\ bucket_of(ops[i].meta_data.v.url, ops[i].meta_data.v.method).t = "panic"
    THEN [t |-> "panic"]
    ELSE [t |-> "ok",
          items |-> bucket_items(ops, 1),
          index |-> [p \in {bucket_items(ops, 1)[j].precedence :
                               j \in 1..Len(bucket_items(ops, 1))} |->
                       SelectSeq([j \in 1..Len(bucket_items(ops, 1)) |-> j - 1],
                                 LAMBDA idx : bucket_items(ops, 1)[idx + 1].precedence = p)]]

(***************************************************************************)
(* AMOS definitions (amos.rs).  A schema is here a record: t is the        *)
(* variant, a Reference holds the parts of its path, an Object its         *)
(* properties                                                              *)
(***************************************************************************)
\* self.definitions.iter().find(|d| d.name == name)
find_definition(definitions, name) ==
    IF \A i \in 1..Len(definitions) : definitions[i].name # name THEN None
    ELSE Some(definitions[SetMin({i \in 1..Len(definitions) : definitions[i].name = name})])

\* the parameters pushed for one parameter of the operation
resolve_parameter(definitions, param) ==
    IF param.schema.t # "Reference" THEN <<param>>
    ELSE IF ~find_definition(definitions, param.schema.r[Len(param.schema.r)]).some
    THEN <<>>
    ELSE IF find_definition(definitions, param.schema.r[Len(param.schema.r)]).v.schema.t
              = "Object"
    THEN [n \in 1..Len(find_definition(definitions,
                          param.schema.r[Len(param.schema.r)]).v.schema.properties) |->
            [name |-> find_definition(definitions, param.schema.r[Len(param.schema.r)])
                         .v.schema.properties[n].name,
             schema |-> find_definition(definitions, param.schema.r[Len(param.schema.r)])
                           .v.schema.properties[n].schema,
             required |-> param.required,
             ownership |-> param.ownership,
             meta_data |-> param.meta_data]]
    ELSE <<param>>

RECURSIVE resolve_parameters_from(_, _, _)
resolve_parameters_from(definitions, params, i) ==
    IF i > Len(params) THEN <<>>
    ELSE resolve_parameter(definitions, params[i])
         \o resolve_parameters_from(definitions, params, i + 1)

\* AMOS::resolve_operation
resolve_operation(amos, name) ==
    IF ~find_operation(amos.operations, name).some THEN None
    ELSE Some([find_operation(amos.operations, name).v EXCEPT
                 !.parameters = resolve_parameters_from(amos.definitions, @, 1)])

(***************************************************************************)
(* The functions of synthesis and of the AMOS on their own: Init draws the *)
(* arguments of one call, the action of that function applies it           *)
(***************************************************************************)
\* a draw of the state-identity generator, or no operation at all, with a
\* query position inside the draw
IdentityInputs ==
    {[q |-> q, ops |-> d.seq] :
        d \in generator("StateIdentity", "getPersons") \cup {NoDraw},
        q \in 0..2} 

\* URL templates: /persons, /persons/{person}, /persons/{person}/visits,
\* /persons/{person}/visits/{visit}, /persons/v{person}, /files/{name}.{ext}
BucketUrls ==
    { <<Sep, Lit("persons")>>,
      <<Sep, Lit("persons"), Sep, Ph("person")>>,
      <<Sep, Lit("persons"), Sep, Ph("person"), Sep, Lit("visits")>>,
      <<Sep, Lit("persons"), Sep, Ph("person"), Sep, Lit("visits"), Sep, Ph("visit")>>,
      <<Sep, Lit("persons"), Sep, Lit("v"), Ph("person")>>,
      <<Sep, Lit("files"), Sep, Ph("name"), Lit("."), Ph("ext")>> }

\* the methods parse_method_str gives
HTTPMethods == {"GET", "DELETE", "POST", "PUT", "Unsupported"}

\* lists of one or two operations, named by their position, with HTTP
\* metadata or without metadata
BucketOperations ==
    LET metas == {None} \cup {Some([url |-> u, method |-> m]) :
                                u \in BucketUrls, m \in HTTPMethods}
    IN  {<<[name |-> "op1", meta_data |-> m1]>> : m1 \in metas}
        \cup {<<[name |-> "op1", meta_data |-> m1], [name |-> "op2", meta_data |-> m2]>> :
                 m1 \in metas, m2 \in metas}

SchemaOf(variant) == [t |-> variant]

Reference(parts) == [t |-> "Reference", r |-> parts]

\* the definitions of an AMOS: Person may be missing, an Object without
\* properties, or an Object one of whose properties may refer to Address;
\* Address may be missing, an Object, or an array
AmosDefinitions ==
    LET persons ==
            {<<>>} \cup
            {<<[name |-> "Person", key |-> "definition/Person",
                schema |-> [t |-> "Object", properties |-> ps]]>> :
                ps \in {<<>>,
                         <<[name |-> "name", schema |-> SchemaOf("String")]>>,
                         <<[name |-> "name", schema |-> SchemaOf("String")],
                           [name |-> "address",
                            schema |-> Reference(<<"#", "definitions", "Address">>)]>>}}
        addresses ==
            {<<>>} \cup
            {<<[name |-> "Address", key |-> "definition/Address", schema |-> sc]>> :
                sc \in {[t |-> "Object",
                         properties |-> <<[name |-> "street",
                                           schema |-> SchemaOf("String")]>>],
                        SchemaOf("ArrayOfString")}}
    IN  {ds1 \o ds2 : ds1 \in persons, ds2 \in addresses}

\* the parameters an operation of the AMOS can have
AmosParameters ==
    {[name |-> "id", schema |-> SchemaOf("String"), required |-> TRUE,
      ownership |-> "Unknown", meta_data |-> Some([target |-> "Path"])]}
    \cup {[name |-> "body", schema |-> Reference(<<"#", "definitions", d>>),
           required |-> rq, ownership |-> "Owned",
           meta_data |-> Some([target |-> "Body"])] :
             d \in {"Person", "Address"}, rq \in BOOLEAN}

\* an AMOS of two operations and the name of one of them
AmosInputs ==
    {[amos |-> [operations |->
                  <<[name |-> "getPersons", key |-> "operation/getPersons",
                     parameters |-> <<>>],
                    [name |-> "createPerson", key |-> "operation/createPerson",
                     parameters |-> ps]>>,
                definitions |-> ds],
      name |-> nm] :
        ps \in UNION {[1..n -> AmosParameters] : n \in 1..2},
        ds \in AmosDefinitions,
        nm \in {"getPersons", "createPerson"}}

\* the primitive values a slot can hold, with a seed on either side of the
\* limit of synthesize_operation
PrimitiveValues ==
    {StringValue("a", sd, FALSE) : sd \in {5, 6}}
    \cup {[kind |-> kd, value |-> v, seed |-> sd, active |-> FALSE] :
             kd \in {"IntValue"}, v \in {1}, sd \in {5, 6}}
    \cup {[kind |-> "BoolValue", value |-> TRUE, seed |-> sd, active |-> FALSE] :
             sd \in {5, 6}}
    \cup {[kind |-> "DoubleValue", value |-> 1, seed |-> sd, active |-> FALSE] :
             sd \in {5, 6}}
    \cup {[kind |-> "IPV4Value", value |-> <<127, 0, 0, 1>>, seed |-> sd,
           active |-> FALSE] : sd \in {5, 6}}
    \cup {[kind |-> "ArrayOfString", value |-> <<"a">>, seed |-> sd, active |-> FALSE] :
             sd \in {5, 6}}
    \cup {[kind |-> "File", value |-> "a", seed |-> sd, active |-> FALSE] : sd \in {5, 6}}

\* one generated operation: postVisit (a required Path parameter) or
\* findVisits (a Path and a Query parameter, neither required)
SynthesisInputs ==
    {[op |-> "postVisit", vals |-> <<v>>] : v \in PrimitiveValues}
    \cup {[op |-> "findVisits", vals |-> <<v, w>>] :
             v \in PrimitiveValues, w \in PrimitiveValues}

InitFn ==
    /\ behaviour = "StateIdentity"
    /\ explore_ops = <<>>
    /\ number_of_tests = 0
    /\ is_dry_run = FALSE
    /\ drawn = TranslateDraws
    /\ InitWorker
    /\ fn_out = None
    /\ \/ /\ pc = "identity"
          /\ fn_in \in {x \in IdentityInputs : x.q < Len(x.ops) \/ x = [q |-> 0, ops |-> <<>>]}
       \/ /\ pc = "buckets"
          /\ fn_in \in BucketOperations
       \/ /\ pc = "resolve"
          /\ fn_in \in AmosInputs
       \/ /\ pc = "synthesize"
          /\ fn_in \in SynthesisInputs

\* synthesize_operations_for_state_identity(query_precedence, ops)
SynthesizeIdentity ==
    /\ pc = "identity"
    /\ fn_out' = Some(synthesize_operations_for_state_identity(fn_in.q, fn_in.ops))
    /\ pc' = "identity_done"
    /\ UNCHANGED <<cfg, tree, call, cons, query_operation, op_i, test_n, phase,
                   shrink_count, result_seq, invokes, moves, bus, pub_log, send_failed,
                   fn_in>>

\* Buckets::new(ops)
BucketsNew ==
    /\ pc = "buckets"
    /\ fn_out' = Some(Buckets_new(fn_in))
    /\ pc' = "buckets_done"
    /\ UNCHANGED <<cfg, tree, call, cons, query_operation, op_i, test_n, phase,
                   shrink_count, result_seq, invokes, moves, bus, pub_log, send_failed,
                   fn_in>>

\* amos.find_operation(name) and amos.resolve_operation(name)
ResolveOperation ==
    /\ pc = "resolve"
    /\ fn_out' = Some([found |-> find_operation(fn_in.amos.operations, fn_in.name),
                       resolved |-> resolve_operation(fn_in.amos, fn_in.name)])
    /\ pc' = "resolve_done"
    /\ UNCHANGED <<cfg, tree, call, cons, query_operation, op_i, test_n, phase,
                   shrink_count, result_seq, invokes, moves, bus, pub_log, send_failed,
                   fn_in>>

\* synthesize_operation(ops, generated_op) for a sequence of one operation
SynthesizeOperation ==
    /\ pc = "synthesize"
    /\ fn_out' = Some(synthesize_operation(<<fn_in>>, fn_in))
    /\ pc' = "synthesize_done"
    /\ UNCHANGED <<cfg, tree, call, cons, query_operation, op_i, test_n, phase,
                   shrink_count, result_seq, invokes, moves, bus, pub_log, send_failed,
                   fn_in>>

NextFn ==
    \/ SynthesizeIdentity
    \/ BucketsNew
    \/ ResolveOperation
    \/ SynthesizeOperation

SpecFn == InitFn /\ [][NextFn]_vars

(***************************************************************************)
(* invoke on its own, for sequences with active references: explore has    *)
(* drawn a value in its first test, synthesized it and entered invoke      *)
(***************************************************************************)
InitRefs ==
    /\ behaviour \in StateBehaviours
    /\ explore_ops = <<"getPersons">>
    /\ number_of_tests = 1
    /\ is_dry_run = FALSE
    /\ drawn = ActiveDraws
    /\ query_operation = Some("getPersons")
    /\ op_i = 1
    /\ test_n = 0
    /\ phase = "test"
    /\ shrink_count = 0
    /\ val \in {d \in generator(behaviour, "getPersons") :
                   ~HasPanic(synthesize(behaviour, d))}
    /\ first_val = NoDraw
    /\ gen_ops = synthesize(behaviour, val)
    /\ results = <<>>
    /\ k = 1
    /\ invoke_result = None
    /\ result_seq = None
    /\ trace = <<[e |-> "enter", i |-> 0]>>
    /\ invokes = 1
    /\ moves = 0
    /\ bus = <<>>
    /\ rx_alive = TRUE
    /\ consumer = "recv"
    /\ app_results = <<>>
    /\ pub_log = <<Control("Started")>>
    /\ send_failed = FALSE
    /\ pc = "invoke"
    /\ fn_in = <<>>
    /\ fn_out = None

NextRefs ==
    \/ InvokeStep
    \/ InvokeExit
    \/ Receive

SpecRefs == InitRefs /\ [][NextRefs]_vars

(***************************************************************************)
(* Properties                                                              *)
(***************************************************************************)
Last(s) == s[Len(s)]

Entries(tr, e) == SelectSeq(tr, LAMBDA x : x.e = e)

\* the filtered results of the invoke call that returned fail the predicate
PredicateFails ==
    /\ pc = "after_invoke"
    /\ query_results.some
    /\ ~check(behaviour, query_results.v)

WitnessKinds ==
    {"ResponseCheck", "ResponseEquality", "ResponseInEquality", "StateMutation",
     "StateIdentity"}

\* C1: a test iteration whose filtered results fail the predicate is the last
\* one of its explore call: the worker's next step enters the shrink loop, no
\* test iteration starts while the call lasts, and when the shrink loop exits
\* explore returns Some(the sequence synthesized from the tree's current
\* value), whatever the shrink invocations returned; the orchestrator then
\* publishes the witness result of its behaviour with that sequence, which
\* for response_check is the one call of the explored operation.
C1_WitnessEndsTheTests ==
    [][/\ (PredicateFails /\ phase = "test" /\ pc' # pc)
            => (pc' = "shrink" /\ phase' = "shrink" /\ test_n' = test_n)
       /\ (phase = "shrink" /\ phase' = "shrink")
            => (test_n' = test_n /\ pc' # "test")
       /\ (phase = "shrink" /\ pc = "after_invoke" /\ pc' = "op_result")
            => result_seq' = Some(synthesize(behaviour, val'))
       /\ (phase = "shrink" /\ pc = "op_result" /\ pc' = "op")
            => /\ Last(pub_log').type = "Result"
               /\ Last(pub_log').result.kind \in WitnessKinds
               /\ Last(pub_log').result.minimal_sequence = result_seq
               /\ result_seq.some
               /\ behaviour = "Property"
                    => /\ Last(pub_log').result.kind = "ResponseCheck"
                       /\ Last(pub_log').result.operation = explore_ops[op_i]
                       /\ Len(result_seq.v) = 1
                       /\ result_seq.v[1].name = explore_ops[op_i]]_vars

\* one test, 500 on the first call, 200 on the call of the shrink loop:
\* ResponseCheck is published for getPersons with the one-call sequence
C1_Witness ==
    /\ behaviour = "Property"
    /\ number_of_tests = 1
    /\ pc = "op"
    /\ op_i = 2
    /\ shrink_count = 1
    /\ results # <<>>
    /\ results[1].meta_data.v.status = "OK"
    /\ Last(pub_log) =
         ResultEvent([kind |-> "ResponseCheck", operation |-> "getPersons",
                      minimal_sequence |->
                          Some(<<[name |-> "getPersons", parameters |-> <<>>]>>)])

\* C2: an explore call in which no iteration's filtered results failed the
\* predicate (each was aborted or held) has invoked exactly number_of_tests
\* sequences and made no simplify or complicate call when it returns, it
\* returns None, and the orchestrator publishes NoExampleFound for the
\* operation.
C2_NoWitnessNoShrink ==
    [][(pc = "op_result" /\ phase = "test")
          => /\ invokes = number_of_tests
             /\ moves = 0
             /\ result_seq = None
             /\ pc' = "op"
                  => Last(pub_log') =
                       ResultEvent([kind |-> "NoExampleFound",
                                    operation |-> explore_ops[op_i]])]_vars

\* two iterations, the last one aborted, and the call returned None
C2_Witness ==
    /\ pc = "op_result"
    /\ phase = "test"
    /\ number_of_tests = 2
    /\ invokes = 2
    /\ invoke_result = None
    /\ result_seq = None

\* C3: when build_request gives None for operation k, the step of invoke that
\* finds it sends nothing, invoke returns None, and the requests sent in the
\* call are those of operations before k only.
C3_TranslationNoneAborts ==
    [][(/\ pc = "invoke"
        /\ k <= Len(gen_ops)
        /\ build_request(Operations, gen_ops[k], results).t = "none"
        /\ <<pc, k, trace>>' # <<pc, k, trace>>)
          => /\ pc' = "after_invoke"
             /\ invoke_result' = None
             /\ Entries(trace', "request") = Entries(trace, "request")
             /\ \A j \in 1..Len(trace') : trace'[j].e = "request" => trace'[j].i < k]_vars

\* the second of three operations has no translation: the first was sent, the
\* third, which has one, was not
C3_Witness ==
    /\ pc = "after_invoke"
    /\ invoke_result = None
    /\ Len(gen_ops) = 3
    /\ Last(trace) = [e |-> "none", i |-> 2]
    /\ Len(Entries(trace, "request")) = 1
    /\ build_request(Operations, gen_ops[3], results).t = "some"

\* the calls of the running invoke that were sent and got no InvokeResult
Unanswered(tr) ==
    {tr[j].i : j \in {m \in 1..Len(tr) : tr[m].e = "request"}}
    \ {tr[j].i : j \in {m \in 1..Len(tr) : tr[m].e = "invocation"}}

\* C4: a call for which the transport function yields no InvokeResult is the
\* last request of its sequence, and invoke returns None.
C4_TransportNoneAborts ==
    \A u \in Unanswered(trace) :
        /\ \A j \in 1..Len(trace) : trace[j].e = "request" => trace[j].i <= u
        /\ pc = "after_invoke" => invoke_result = None

\* C5: when invoke returns, aborted or not, the sequence has published exactly
\* one InvocationSpanExit, after its InvocationSpanEnter and its invocations.
C5_SpanExitOnEveryReturn ==
    pc = "after_invoke"
        => /\ trace[1].e = "enter"
           /\ Last(trace).e = "exit"
           /\ Len(Entries(trace, "exit")) = 1

\* C6: in an invoke call the requests are those of operations 1, 2, ... in
\* that order, one at a time; the Invocation event of a step is published,
\* carrying the result of that step, before the next request is sent, and the
\* result list holds the results in call order.
C6_ProgramOrder ==
    [][/\ \A j \in 1..Len(Entries(trace', "request")) :
              Entries(trace', "request")[j].i = j
       /\ \A j \in 1..Len(trace') :
              trace'[j].e = "invocation"
                  => /\ trace'[j - 1] = [e |-> "request", i |-> trace'[j].i]
                     /\ \A m \in 1..(j - 1) :
                            trace'[m].e = "request" => trace'[m].i <= trace'[j].i
       /\ Len(results') = Len(Entries(trace', "invocation"))
       /\ \A j \in 1..Len(results') :
              results'[j].operation = gen_ops'[Entries(trace', "invocation")[j].i]
       /\ (trace' # trace /\ Last(trace').e = "invocation")
              => /\ bus' = Append(bus, Invocation(Last(results')))
                 /\ results' = Append(results, Last(results'))
                 /\ Last(results').operation = gen_ops[k]]_vars

\* three calls were sent and answered in one invoke call, by different results
C6_Witness ==
    /\ pc = "invoke"
    /\ Len(results) = 3
    /\ Len(Entries(trace, "invocation")) = 3
    /\ results[1] # results[2]
    /\ gen_ops[1] # gen_ops[2]

ResultOperation(r) ==
    IF r.kind \in {"StateMutation", "StateIdentity"} THEN r.query_operation
    ELSE r.operation

Published(type) == SelectSeq(pub_log, LAMBDA e : e.type = type)

Has500(r) == r.meta_data.some /\ r.meta_data.v.status = "InternalServerError"

\* C9: check_response returns false exactly when some result of the list, at
\* any position, has status 500.
C9_FalseIffSome500 ==
    (pc = "checked" /\ fn_out.v.f = "check_response")
        => (fn_out.v.v = FALSE <=> \E i \in 1..Len(fn_in) : Has500(fn_in[i]))

\* three query results, the first and the last the same result with payload
\* X, the one between with another payload Y
XYX(rs) ==
    /\ Len(rs) = 3
    /\ rs[1] = rs[3]
    /\ rs[1].result # rs[2].result

\* a test iteration of a state-identity exploration got X, Y, X from the query
IdentityObserved ==
    /\ behaviour = "StateIdentity"
    /\ pc = "after_invoke"
    /\ phase = "test"
    /\ query_results.some
    /\ XYX(query_results.v)

\* C10 as the code has it: on query results X, Y, X
\* check_state_identity_with_observation returns false, so the iteration
\* is a witness: explore enters the shrink loop, and the exploration of the
\* query operation ends with a StateIdentity result that carries a sequence.
C10_IdentityIsAWitness ==
    [][/\ IdentityObserved
            => /\ ~check_state_identity_with_observation(query_results.v)
               /\ pc' # pc => (pc' = "shrink" /\ phase' = "shrink")
       /\ (behaviour = "StateIdentity" /\ phase = "shrink" /\ pc = "op_result"
             /\ pc' = "op")
            => /\ Last(pub_log').type = "Result"
               /\ Last(pub_log').result.kind = "StateIdentity"
               /\ Last(pub_log').result.query_operation = explore_ops[op_i]
               /\ Last(pub_log').result.minimal_sequence.some]_vars

\* C10 as stated: on query results X, Y, X the check returns true (and so no
\* witness is reported).
C10_IdentityHolds ==
    IdentityObserved => check_state_identity_with_observation(query_results.v)

\* the query answered X, Y, X in the test iteration and again in the shrink
\* step, the tree could not be simplified, and StateIdentity was published
C10_Witness ==
    /\ behaviour = "StateIdentity"
    /\ pc = "op"
    /\ op_i = 2
    /\ invokes = 2
    /\ query_results.some
    /\ XYX(query_results.v)
    /\ Last(pub_log).type = "Result"
    /\ Last(pub_log).result.kind = "StateIdentity"

\* the first and the last result are equal and a result between them differs
\* from the first
ChangedAndUndone(rs) ==
    /\ Len(rs) > 1
    /\ rs[1] = rs[Len(rs)]
    /\ \E j \in 2..(Len(rs) - 1) : rs[j] # rs[1]

\* C11: on the filtered query results of a state-identity iteration,
\* check_state_identity_with_observation is check_state_mutation when the
\* list has more than one result and its first equals its last, and true
\* otherwise; a test iteration starts the shrink loop exactly when the first
\* and last results are equal while one between differs from the first, and
\* the exploration of a query operation publishes StateIdentity exactly when
\* a test iteration did so (NoExampleFound otherwise).
C11_WitnessIffChangedAndUndone ==
    [][/\ (behaviour = "StateIdentity" /\ pc = "after_invoke" /\ query_results.some)
            => /\ check_state_identity_with_observation(query_results.v)
                    = (IF /\ Len(query_results.v) > 1
                          /\ query_results.v[1] = Last(query_results.v)
                       THEN check_state_mutation(query_results.v)
                       ELSE TRUE)
               /\ (phase = "test" /\ pc' # pc)
                    => (phase' = "shrink" <=> ChangedAndUndone(query_results.v))
       /\ (behaviour = "StateIdentity" /\ pc = "after_invoke" /\ phase = "test"
             /\ ~query_results.some /\ pc' # pc)
            => phase' = "test"
       /\ (behaviour = "StateIdentity" /\ pc = "op_result" /\ pc' = "op")
            => /\ Last(pub_log').result.kind \in {"StateIdentity", "NoExampleFound"}
               /\ Last(pub_log').result.kind = "StateIdentity" <=> phase = "shrink"]_vars

\* every test of the exploration is done and none was a witness; the query
\* results of the last one are X, X, Y: a change that was not undone
C11_Witness ==
    /\ behaviour = "StateIdentity"
    /\ pc = "op_result"
    /\ phase = "test"
    /\ number_of_tests > 0
    /\ query_results.some
    /\ Len(query_results.v) = 3
    /\ query_results.v[1] = query_results.v[2]
    /\ query_results.v[1] # query_results.v[3]

\* C12: when explore returns a witness S' and the sequence invoked when the
\* predicate first failed was S, S' has at most as many calls as S and every
\* operation of S' is an operation of S.
C12_ShrinkIsMonotone ==
    (pc = "op_result" /\ phase = "shrink")
        => /\ Len(result_seq.v) <= Len(synthesize(behaviour, first_val))
           /\ \A i \in 1..Len(result_seq.v) :
                 \E j \in 1..Len(synthesize(behaviour, first_val)) :
                     result_seq.v[i].name = synthesize(behaviour, first_val)[j].name

\* C16: an operation with a required parameter whose generated value is Empty
\* (its schema has no generator) is never requested, and an invoke call on a
\* sequence that holds such an operation returns None.
C16_EmptyRequiredAborts ==
    LET EmptyRequired(name) ==
            \E j \in 1..Len(find_operation(Operations, name).v.parameters) :
                /\ find_operation(Operations, name).v.parameters[j].required
                /\ gen_parameter_value(find_operation(Operations, name).v.parameters[j])
                     = {Empty}
    IN  /\ \A j \in 1..Len(trace) :
               trace[j].e = "request" => ~EmptyRequired(gen_ops[trace[j].i].name)
        /\ (pc = "after_invoke" /\ \E i \in 1..Len(gen_ops) : EmptyRequired(gen_ops[i].name))
               => invoke_result = None

\* C13: in the current value of a tree, drawn or moved by simplify and
\* complicate, every Reference held by the operation at 0-based position i
\* has relation.op_idx < i, its op_idx names an operation of the draw and its
\* idx a parameter (Parameter relation) or response (Response relation) of
\* that operation, whose name is relation.operation.
C13_ReferenceIntegrity ==
    \A i \in 1..Len(val.seq) : \A j \in 1..Len(val.seq[i].vals) :
        val.seq[i].vals[j].kind = "Reference"
            => /\ val.seq[i].vals[j].relation.op_idx < i - 1
               /\ val.seq[i].vals[j].relation.op_idx + 1 \in 1..Len(val.seq)
               /\ val.seq[i].vals[j].relation.idx + 1 \in
                    1..Len(IF val.seq[i].vals[j].relation.kind = "Parameter"
                           THEN OpOf(val.seq[val.seq[i].vals[j].relation.op_idx + 1]).parameters
                           ELSE OpOf(val.seq[val.seq[i].vals[j].relation.op_idx + 1]).responses)
               /\ val.seq[val.seq[i].vals[j].relation.op_idx + 1].op
                    = val.seq[i].vals[j].relation.operation
               /\ val.seq[i].vals[j].idx = <<val.seq[i].vals[j].relation.op_idx,
                                            val.seq[i].vals[j].relation.idx>>

\* a tree moved by simplify whose current value holds a Response reference in
\* its second operation and a Parameter reference in its third
C13_Witness ==
    /\ pc = "tree"
    /\ val # first_val
    /\ Len(val.seq) = 3
    /\ val.seq[2].vals # <<>>
    /\ val.seq[2].vals[1].kind = "Reference"
    /\ val.seq[2].vals[1].relation.kind = "Response"
    /\ val.seq[3].vals # <<>>
    /\ val.seq[3].vals[1].kind = "Reference"
    /\ val.seq[3].vals[1].relation.kind = "Parameter"

\* C14: the chain of every active Parameter reference of a draw ends, within
\* the links the sequence has room for, in a value that is not a Reference or
\* in a Response reference, and the synthesis of the draw returns.
C14_ChainsTerminate ==
    /\ \A i \in 1..Len(val.seq) : \A j \in 1..Len(val.seq[i].vals) :
          (/\ val.seq[i].vals[j].kind = "Reference"
           /\ val.seq[i].vals[j].active
           /\ val.seq[i].vals[j].relation.kind = "Parameter")
            => /\ resolve_chain(val.seq, val.seq[i].vals[j].relation, i).t = "done"
               /\ resolve_chain(val.seq, val.seq[i].vals[j].relation, i).value.kind
                     = "Reference"
                    => resolve_chain(val.seq, val.seq[i].vals[j].relation, i)
                         .value.relation.kind = "Response"
    /\ (pc = "tree" /\ fn_out.some) => ~HasPanic(fn_out.v)

\* a synthesized draw whose third operation refers to the parameter of the
\* second, which refers to the parameter of the first: a chain of two links
C14_Witness ==
    /\ pc = "tree"
    /\ fn_out.some
    /\ Len(val.seq) = 3
    /\ val.seq[3].vals[1].kind = "Reference"
    /\ val.seq[3].vals[1].relation.kind = "Parameter"
    /\ val.seq[3].vals[1].relation.op_idx = 1
    /\ val.seq[2].vals[1].kind = "Reference"
    /\ val.seq[2].vals[1].relation.kind = "Parameter"
    /\ val.seq[2].vals[1].relation.op_idx = 0
    /\ fn_out.v[3].parameters[1].value = val.seq[1].vals[1]

\* C15: for a slot that holds Reference{active = false, fallback = f},
\* synthesize_operation emits one parameter, under the name of the slot's
\* parameter, with the value f and no reference path, as it does for a slot
\* that holds f.
C15_InactiveIsFallback ==
    pc = "given"
        => fn_out.v[1].parameters =
             <<[name |-> OpOf(fn_in[2]).parameters[1].name,
                value |-> fn_in[2].vals[1].fallback, ref_path |-> None]>>

\* C20: for a draw of n operations state-mutation synthesis gives n + 1
\* calls: the synthesis of each operation of the draw, in draw order, and
\* then the synthesis of the draw's first operation, the query, again.
C20_QueryFirstAndLast ==
    (behaviour = "StateMutation" /\ pc = "tree" /\ fn_out.some)
        => /\ Len(fn_out.v) = Len(fn_in) + 1
           /\ \A i \in 1..Len(fn_in) : fn_out.v[i] = synthesize_operation(fn_in, fn_in[i])
           /\ fn_out.v[Len(fn_in) + 1] = synthesize_operation(fn_in, fn_in[1])
           /\ fn_out.v[1] = fn_out.v[Len(fn_out.v)]
           /\ fn_out.v[1].name = explore_ops[1]

\* a draw of the query and two different operations, synthesized to four calls
C20_Witness ==
    /\ behaviour = "StateMutation"
    /\ pc = "tree"
    /\ fn_out.some
    /\ Len(fn_in) = 3
    /\ fn_in[2].op # fn_in[3].op
    /\ Len(fn_out.v) = 4
    /\ fn_out.v[2].name # fn_out.v[3].name

\* C17: when the value of a Path parameter is a Response reference and the
\* call it refers to was unsuccessful or returned an empty JSON array,
\* translate_parameters returns None (so that invoke stops there).
C17_UnresolvedReferenceIsNone ==
    (/\ pc = "translated"
     /\ fn_in.params[1].value.kind = "Reference"
     /\ fn_in.params[1].value.relation.kind = "Response"
     /\ \/ ~fn_in.results[fn_in.params[1].value.relation.op_idx + 1].success
        \/ fn_in.results[fn_in.params[1].value.relation.op_idx + 1].result = "[]")
        => fn_out.v.t = "none"

\* C18: translate_parameters returns None whenever the value of a Path
\* parameter is Empty or gives the empty text, whatever its variant (for a
\* Response reference the value it resolves to).
C18_EmptyPathIsNone ==
    LET held == fn_in.params[1].value
        resolved ==
            IF held.kind = "Reference"
            THEN parse_response(fn_in.amos_params[1],
                                fn_in.results[held.relation.op_idx + 1],
                                held.relation, held.fallback).v
            ELSE held
    IN  (/\ pc = "translated"
         /\ fn_in.amos_params[1].target = "Path"
         /\ \/ resolved = Empty
            \/ \A n \in 1..Len(render(resolved)) : render(resolved)[n] = "")
            => fn_out.v.t = "none"

\* the sequence is exactly two calls of the operation
TwoCallsOf(seq, op_name) ==
    /\ Len(seq) = 2
    /\ \A j \in 1..2 : seq[j].name = op_name

\* C19 as the code has it: with the fixed-payload transport, a test of
\* explore_response_equality is abandoned exactly when its sequence has no
\* translation (a required Path parameter was drawn empty), and every other
\* test is a witness; the operation's Result is ResponseEquality with a
\* minimal sequence of exactly two calls of it when a test was a witness and
\* NoExampleFound when there is no test or every test was abandoned, which an
\* operation without parameters never is.  explore_response_inequality ends
\* every test without a witness and publishes NoExampleFound.
C19_DryRunEquality ==
    [][/\ (is_dry_run /\ behaviour = "ResponseEquality" /\ pc = "after_invoke"
             /\ phase = "test")
            => /\ ~query_results.some
                    <=> build_request(Operations, gen_ops[1], <<>>).t = "none"
               /\ find_operation(Operations, explore_ops[op_i]).v.parameters = <<>>
                    => query_results.some
               /\ (query_results.some /\ pc' # pc) => (pc' = "shrink" /\ phase' = "shrink")
               /\ (~query_results.some /\ pc' # pc) => (pc' = "test" /\ phase' = "test")
       /\ (is_dry_run /\ behaviour = "ResponseEquality" /\ pc = "op_result" /\ pc' = "op")
            => /\ Last(pub_log').type = "Result"
               /\ IF phase = "shrink"
                  THEN /\ Last(pub_log').result.kind = "ResponseEquality"
                       /\ Last(pub_log').result.operation = explore_ops[op_i]
                       /\ Last(pub_log').result.minimal_sequence.some
                       /\ TwoCallsOf(Last(pub_log').result.minimal_sequence.v,
                                     explore_ops[op_i])
                  ELSE Last(pub_log').result
                         = [kind |-> "NoExampleFound", operation |-> explore_ops[op_i]]
       /\ (is_dry_run /\ behaviour = "ResponseInequality" /\ pc = "after_invoke"
             /\ pc' # pc)
            => (pc' = "test" /\ phase' = "test")
       /\ (is_dry_run /\ behaviour = "ResponseInequality" /\ pc = "op_result"
             /\ pc' = "op")
            => Last(pub_log').result
                 = [kind |-> "NoExampleFound", operation |-> explore_ops[op_i]]]_vars

\* C19 as stated: with the fixed-payload transport and at least one test,
\* every Result of explore_response_equality is ResponseEquality with a
\* minimal sequence of exactly two calls of the operation, and every Result of
\* explore_response_inequality is NoExampleFound.
C19_AlwaysEquality ==
    (is_dry_run /\ number_of_tests >= 1)
        => \A j \in 1..Len(Published("Result")) :
              /\ behaviour = "ResponseEquality"
                   => /\ Published("Result")[j].result.kind = "ResponseEquality"
                      /\ TwoCallsOf(Published("Result")[j].result.minimal_sequence.v,
                                    explore_ops[j])
              /\ behaviour = "ResponseInequality"
                   => Published("Result")[j].result.kind = "NoExampleFound"

\* both operations were explored with the fixed-payload transport: two calls
\* of getPersons, and two calls of getPerson with a person that is not empty
C19_Witness ==
    /\ is_dry_run
    /\ behaviour = "ResponseEquality"
    /\ pc = "op"
    /\ op_i = 3
    /\ Len(Published("Result")) = 2
    /\ \A j \in 1..2 :
          /\ Published("Result")[j].result.kind = "ResponseEquality"
          /\ TwoCallsOf(Published("Result")[j].result.minimal_sequence.v, explore_ops[j])
    /\ Published("Result")[2].result.minimal_sequence.v[1].parameters[1].value.value = "a"

\* C21: for a draw of n operations and a query position q < n, state-identity
\* synthesis emits the operations at positions 0..q in order and then, for
\* every position j > q in order, the operation at j followed by the query
\* operation at q: (q+1) + 2(n-1-q) calls; an empty draw gives no call.
C21_IdentityInterleaving ==
    pc = "identity_done"
        => IF fn_in.ops = <<>> THEN fn_out.v = <<>>
           ELSE /\ Len(fn_out.v) = (fn_in.q + 1) + 2 * (Len(fn_in.ops) - 1 - fn_in.q)
                /\ \A i \in 1..(fn_in.q + 1) :
                      fn_out.v[i] = synthesize_operation(fn_in.ops, fn_in.ops[i])
                /\ \A j \in (fn_in.q + 2)..Len(fn_in.ops) :
                      /\ fn_out.v[2 * j - fn_in.q - 2]
                           = synthesize_operation(fn_in.ops, fn_in.ops[j])
                      /\ fn_out.v[2 * j - fn_in.q - 1]
                           = synthesize_operation(fn_in.ops, fn_in.ops[fn_in.q + 1])

\* three operations drawn, the query at the second position: four calls, the
\* last two the third operation and the query, which differ
C21_Witness ==
    /\ pc = "identity_done"
    /\ Len(fn_in.ops) = 3
    /\ fn_in.q = 1
    /\ Len(fn_out.v) = 4
    /\ fn_out.v[3] # fn_out.v[4]
    /\ fn_out.v[4] = fn_out.v[2]

\* the number of placeholders of a URL
Placeholders(url) == Len(SelectSeq(url, LAMBDA tok : tok.t = "ph"))

\* the bucket the table gives for k placeholders
TableBucket(url, method) ==
    LET kk == Placeholders(url)
        deeper == IF kk = 0 \/ ends_with_brace(url) THEN kk ELSE kk + 1
    IN  CASE method = "GET" -> [precedence |-> deeper, kind |-> "Read"]
          [] method = "POST" ->
                [precedence |-> deeper,
                 kind |-> IF kk = 0 \/ ends_with_brace(url) THEN "Create" ELSE "Update"]
          [] method = "PUT" -> [precedence |-> deeper, kind |-> "Update"]
          [] method = "DELETE" -> [precedence |-> kk + 2, kind |-> "Delete"]
          [] OTHER -> [precedence |-> 0, kind |-> "None"]

\* C22: Buckets::new gives every operation that has HTTP metadata exactly
\* one bucket, with the precedence and kind of the table for its number k of
\* URL placeholders (GET, POST, PUT with k >= 1, DELETE), and gives none to an
\* operation without metadata.
C22_BucketTable ==
    pc = "buckets_done"
        => /\ fn_out.v.t = "ok"
           /\ \A i \in 1..Len(fn_in) :
                 LET mine == SelectSeq(fn_out.v.items, LAMBDA it : it.name = fn_in[i].name)
                 IN  IF ~fn_in[i].meta_data.some THEN mine = <<>>
                     ELSE /\ Len(mine) = 1
                          /\ (fn_in[i].meta_data.v.method \in {"GET", "POST", "DELETE"}
                              \/ (fn_in[i].meta_data.v.method = "PUT"
                                  /\ Placeholders(fn_in[i].meta_data.v.url) >= 1))
                               => [precedence |-> mine[1].precedence, kind |-> mine[1].kind]
                                    = TableBucket(fn_in[i].meta_data.v.url,
                                                  fn_in[i].meta_data.v.method)

\* C23: for every operation op of an AMOS, find_operation(op.name) returns
\* op, and resolve_operation(op.name) returns an operation none of whose
\* parameters has a Reference schema.
C23_ResolvedHasNoReference ==
    pc = "resolve_done"
        => \A i \in 1..Len(fn_in.amos.operations) :
              fn_in.amos.operations[i].name = fn_in.name
                => /\ fn_out.v.found = Some(fn_in.amos.operations[i])
                   /\ fn_out.v.resolved.some
                   /\ \A n \in 1..Len(fn_out.v.resolved.v.parameters) :
                         fn_out.v.resolved.v.parameters[n].schema.t # "Reference"

\* what the statement of C24 gives for one parameter
ExpectedParameters(definitions, param) ==
    LET target == IF param.schema.t = "Reference"
                  THEN find_definition(definitions, param.schema.r[Len(param.schema.r)])
                  ELSE None
    IN  IF target.some /\ target.v.schema.t = "Object"
        THEN [n \in 1..Len(target.v.schema.properties) |->
                [name |-> target.v.schema.properties[n].name,
                 schema |-> target.v.schema.properties[n].schema,
                 required |-> param.required,
                 ownership |-> param.ownership,
                 meta_data |-> param.meta_data]]
        ELSE <<param>>

RECURSIVE ExpectedFrom(_, _, _)
ExpectedFrom(definitions, params, i) ==
    IF i > Len(params) THEN <<>>
    ELSE ExpectedParameters(definitions, params[i]) \o ExpectedFrom(definitions, params, i + 1)

\* C24: resolve_operation replaces a Reference parameter whose target
\* definition is an Object by one parameter per property, each with the
\* required, ownership and meta of the original, and keeps every other
\* parameter, also a Reference whose target is not found or not an Object,
\* unchanged and in place.
C24_ResolveKeepsParameters ==
    pc = "resolve_done"
        => /\ fn_out.v.resolved.some
           /\ fn_out.v.resolved.v.parameters
                = ExpectedFrom(fn_in.amos.definitions, fn_out.v.found.v.parameters, 1)

\* C25: a shrink step synthesizes the current value of the tree and invokes
\* it afresh (empty result list), once, and after the filter and the
\* predicate makes exactly one tree move: simplify when the predicate still
\* fails, complicate when it holds, and the loop exits exactly when that
\* move reports that the tree did not change.
C25_ShrinkStep ==
    [][/\ (pc = "shrink" /\ pc' = "invoke")
            => /\ gen_ops' = synthesize(behaviour, val)
               /\ results' = <<>>
               /\ invokes' = invokes + 1
               /\ moves' = moves
               /\ val' = val
       /\ (phase = "shrink" /\ pc = "shrink") => moves = invokes - test_n
       /\ (phase = "shrink" /\ pc = "after_invoke" /\ pc' # pc)
            => /\ moves' = moves + 1
               /\ invokes' = invokes
               /\ pc' \in {"shrink", "op_result"}
               /\ CheckFails
                    => /\ val' \in {val} \cup simpler(behaviour, explore_ops[op_i], val)
                       /\ pc' = "op_result" <=> val' = val
               /\ (query_results.some /\ ~CheckFails)
                    => /\ val' \in {val} \cup more_complex(behaviour, explore_ops[op_i],
                                                           val, first_val)
                       /\ pc' = "op_result" <=> val' = val]_vars

\* the first shrink step still failed and simplify moved the tree, the second
\* held and complicate reported no change: the loop is left after two
\* invocations and three tree moves
C25_Witness ==
    /\ phase = "shrink"
    /\ pc = "op_result"
    /\ shrink_count = 2
    /\ moves = 3
    /\ query_results.some
    /\ ~CheckFails

\* C26: after a witness is found simplify is called before the next
\* invocation, and the first invocation of the shrink loop is not a repeat of
\* the invocation that failed.
C26_NoRepeatOfTheFailingInvocation ==
    [][(phase = "shrink" /\ pc = "shrink" /\ shrink_count = 0 /\ pc' = "invoke")
          => /\ moves = 1
             /\ gen_ops' # gen_ops]_vars

\* C27: the shrink loop exits after finitely many steps also when steps are
\* aborted: an aborted shrink step (the filter gave None) either leaves the
\* loop or has moved the value tree, so that no step hands the loop the very
\* value it has just aborted on.
C27_AbortedStepMakesProgress ==
    [][(phase = "shrink" /\ pc = "after_invoke" /\ ~query_results.some /\ pc' # pc)
          => (pc' = "op_result" \/ val' # val)]_vars

\* C28: whenever invoke is about to translate an operation one of whose
\* values is a Response reference with relation.op_idx = j, the list of
\* results so far has an entry at index j, and it is the result of the
\* operation named relation.operation.
C28_ReferencedResultIsThere ==
    (pc = "invoke" /\ k <= Len(gen_ops))
        => \A n \in 1..Len(gen_ops[k].parameters) :
              (/\ gen_ops[k].parameters[n].value.kind = "Reference"
               /\ gen_ops[k].parameters[n].value.relation.kind = "Response")
                 => /\ gen_ops[k].parameters[n].value.relation.op_idx + 1 <= Len(results)
                    /\ results[gen_ops[k].parameters[n].value.relation.op_idx + 1]
                         .operation.name
                         = gen_ops[k].parameters[n].value.relation.operation

\* the names of the parameters of a generated operation
ParameterNames(gen_op) == {gen_op.parameters[n].name : n \in 1..Len(gen_op.parameters)}

\* C29: synthesis never omits a parameter whose target is Path, even when it
\* is not required and its seed is greater than 5; of the other parameters
\* exactly those that are not required and have a seed greater than 5 are
\* omitted.
C29_PathIsNeverDropped ==
    (pc = "synthesize_done" /\ fn_out.v # PanicOp)
        => \A i \in 1..Len(fn_in.vals) :
              IF OpOf(fn_in).parameters[i].target = "Path"
              THEN OpOf(fn_in).parameters[i].name \in ParameterNames(fn_out.v)
              ELSE OpOf(fn_in).parameters[i].name \notin ParameterNames(fn_out.v)
                     <=> (~OpOf(fn_in).parameters[i].required /\ fn_in.vals[i].seed > 5)

\* C30: for a value of a primitive variant synthesis never fails: the value
\* is copied through under the name of its parameter when the parameter is
\* required or the seed is at most 5, and the parameter is omitted when it is
\* not required and the seed is greater than 5.
C30_PrimitivesAreTotal ==
    pc = "synthesize_done"
        => /\ fn_out.v # PanicOp
           /\ \A i \in 1..Len(fn_in.vals) :
                 IF OpOf(fn_in).parameters[i].required \/ fn_in.vals[i].seed <= 5
                 THEN \E n \in 1..Len(fn_out.v.parameters) :
                         fn_out.v.parameters[n]
                           = [name |-> OpOf(fn_in).parameters[i].name,
                              value |-> fn_in.vals[i], ref_path |-> None]
                 ELSE OpOf(fn_in).parameters[i].name \notin ParameterNames(fn_out.v)

====
